---- MODULE Spec2Model ----
(***************************************************************************)
(* Storage facade of the orchestration platform: the legacy role adapters  *)
(* (LegacyRunStorage, LegacyEventLogStorage, LegacyScheduleStorage) over   *)
(* one DagsterStorage backend, and CompositeStorage over three stores.     *)
(*                                                                         *)
(* Two facades are driven in lock step by every operation:                 *)
(*   "Unified"   - the caller talks to the Legacy* adapters, which forward *)
(*                 to storage.run_storage / .event_log_storage /           *)
(*                 .schedule_storage of the wrapped backend;               *)
(*   "Composite" - the caller talks to the stores that CompositeStorage    *)
(*                 returns from its three properties.                      *)
(* The role stores themselves (RunStorage, EventLogStorage,                *)
(* ScheduleStorage implementations) are modelled from the specification.   *)
(***************************************************************************)
EXTENDS Integers, Sequences, FiniteSets, TLC

VARIABLES
    facade,    \* [Facades -> the facade's storage object with its three role stores]
    last,      \* the most recent call: [op, args, result : [Facades -> result]]
    pc,        \* [Threads -> position of a concurrent store_event caller]
    pending,   \* [Threads -> the event a thread is storing, and what it read]
    issued,    \* number of store_event calls begun by the threads
    subscriber,\* [Facades -> [WatchKeys -> the subscriber's side of a watch: whether
               \*  its watch or end_watch call has returned, the cursor it passed to
               \*  watch, the sequence numbers its callback was invoked with since
               \*  and what the callback did at each invocation]]
    watches,   \* number of watch calls made
    objects    \* the facade objects and what they refer to: the Composite
               \* facade's three fields, the instances it was constructed with,
               \* each role adapter's backend, and the instances called so far

vars == <<facade, last, pc, pending, issued, subscriber, watches, objects>>

(***************************************************************************)
(* Bounds of the model.                                                    *)
(***************************************************************************)
MaxEvents == 3
MaxCalls == 3
MaxWatchedEvents == 4
MaxWatches == 2
MaxTicks == 3
MaxUpdatedTicks == 2
MaxObjectCalls == 3
MaxRegistrations == 3
MaxDisposals == 4

Facades == {"Unified", "Composite"}
Threads == {"t1", "t2"}

RunIds == {"r1", "r2"}
TagSets == {{}, {"t"}}
RunStatuses == {"QUEUED", "STARTING", "STARTED", "SUCCESS", "FAILURE", "CANCELED"}
TerminalStatuses == {"SUCCESS", "FAILURE", "CANCELED"}
RunEventTypes ==
    {"PIPELINE_STARTING", "PIPELINE_START", "PIPELINE_SUCCESS",
     "PIPELINE_FAILURE", "PIPELINE_CANCELED", "ENGINE_EVENT"}

(***************************************************************************)
(* Python values.  Every result is a record [error, value]; value is a     *)
(* sequence: None is <<>>, a scalar v is <<v>>, a list is the list.        *)
(***************************************************************************)
None == <<>>
Ok(v) == [error |-> "", value |-> v]
Raise(e) == [error |-> e, value |-> None]
Scalar(v) == <<v>>

IsNone(x) == x = None

Range(s) == {s[i] : i \in 1..Len(s)}

RECURSIVE SelectSeqBy(_, _)
SelectSeqBy(s, keep) ==
    IF s = <<>> THEN <<>>
    ELSE IF Head(s) \in keep THEN <<Head(s)>> \o SelectSeqBy(Tail(s), keep)
    ELSE SelectSeqBy(Tail(s), keep)

RECURSIVE Reverse(_)
Reverse(s) == IF s = <<>> THEN <<>> ELSE Reverse(Tail(s)) \o <<Head(s)>>

Take(s, limit) ==
    IF IsNone(limit) THEN s
    ELSE SubSeq(s, 1, IF limit[1] < Len(s) THEN limit[1] ELSE Len(s))

(***************************************************************************)
(* RunStore (spec 4.1).  The store is the sequence of its runs in creation *)
(* order; a run is [run_id, status, tags].                                 *)
(***************************************************************************)
EmptyRunStorage == <<>>

RunIndex(rs, run_id) ==
    IF \E i \in 1..Len(rs) : rs[i].run_id = run_id
    THEN CHOOSE i \in 1..Len(rs) : rs[i].run_id = run_id
    ELSE 0

RunStorage_has_run(rs, run_id) ==
    [store |-> rs, result |-> Ok(Scalar(RunIndex(rs, run_id) # 0))]

RunStorage_add_run(rs, pipeline_run) ==
    IF RunIndex(rs, pipeline_run.run_id) # 0
    THEN [store |-> rs, result |-> Raise("AlreadyExists")]
    ELSE [store |-> Append(rs, pipeline_run), result |-> Ok(Scalar(pipeline_run))]

StatusRank(status) ==
    CASE status = "QUEUED" -> 0
      [] status = "STARTING" -> 1
      [] status = "STARTED" -> 2
      [] OTHER -> 3

EventStatus(event) ==
    CASE event = "PIPELINE_STARTING" -> Scalar("STARTING")
      [] event = "PIPELINE_START" -> Scalar("STARTED")
      [] event = "PIPELINE_SUCCESS" -> Scalar("SUCCESS")
      [] event = "PIPELINE_FAILURE" -> Scalar("FAILURE")
      [] event = "PIPELINE_CANCELED" -> Scalar("CANCELED")
      [] OTHER -> None

\* The status a run in `status` takes on `event`: forward along
\* queued, starting, started, terminal, or an explicit cancel of a run that
\* has not ended; anything else leaves the status alone.
NextStatus(status, event) ==
    LET new == EventStatus(event) IN
    IF IsNone(new) \/ status \in TerminalStatuses THEN status
    ELSE IF new[1] = "CANCELED" \/ StatusRank(new[1]) > StatusRank(status) THEN new[1]
    ELSE status

RunStorage_handle_run_event(rs, run_id, event) ==
    LET i == RunIndex(rs, run_id) IN
    IF i = 0 THEN [store |-> rs, result |-> Ok(None)]
    ELSE [store |-> [rs EXCEPT ![i].status = NextStatus(rs[i].status, event)],
          result |-> Ok(None)]

\* filters: None or <<set of statuses>>; cursor: None or <<run id>> (exclusive
\* boundary); limit: None or <<n>>; newest first.
RunStorage_get_runs(rs, filters, cursor, limit, bucket_by) ==
    LET bound == IF IsNone(cursor) THEN Len(rs) + 1 ELSE RunIndex(rs, cursor[1])
        older == SubSeq(rs, 1, bound - 1)
        match == {r \in Range(older) : IsNone(filters) \/ r.status \in filters[1]}
    IN [store |-> rs,
        result |-> Ok(Take(SelectSeqBy(Reverse(older), match), limit))]

RunStorage_delete_run(rs, run_id) ==
    [store |-> SelectSeqBy(rs, {r \in Range(rs) : r.run_id # run_id}),
     result |-> Ok(None)]

RunStorage_wipe(rs) == [store |-> EmptyRunStorage, result |-> Ok(None)]

(***************************************************************************)
(* EventLogStore (spec 4.2).  log[run] is the run's entries in storage     *)
(* order, seq[run] the last per-run sequence number the store assigned,    *)
(* assets[key] the AssetRecord (None or the last materialization entry),   *)
(* partitions[def] the ordered partition keys of a definition, fault the   *)
(* error the backend raises on the next read or write of the log (None or  *)
(* <<error>>; a transient failure, spec 5).                                *)
(***************************************************************************)
AssetKeys == {"a1", "a2"}
EventTypes == {"ASSET_MATERIALIZATION", "STEP_OUTPUT"}
PartitionsDefs == {"d1", "d2"}
PartitionKeys == {"p1", "p2"}
Handlers == {"h1", "h2"}
WatchKeys == RunIds \X Handlers

\* The watcher of a (run, handler) pair that watch was never called for.
NoWatcher ==
    [status |-> "Unregistered", cursor |-> 0, failures |-> 0, idle |-> 0,
     blocked |-> FALSE, stopped_by |-> "", error |-> ""]

EmptyEventLogStorage ==
    [log |-> [r \in RunIds |-> <<>>],
     seq |-> [r \in RunIds |-> 0],
     assets |-> [k \in AssetKeys |-> None],
     partitions |-> [d \in PartitionsDefs |-> <<>>],
     watchers |-> [k \in WatchKeys |-> NoWatcher],
     fault |-> None]

\* What a call on the log ends with: `out`, or the backend's pending error,
\* which is then over.
EventLogStorage_failing(es, out) ==
    IF IsNone(es.fault) THEN out
    ELSE [store |-> [es EXCEPT !.fault = None], result |-> Raise(es.fault[1])]

\* Mutant: the number is taken from the counter read when the call began.
EventLogStorage_next_sequence_stale(es, run_id, seen) == seen + 1

\* The sequence number of the next entry of run_id.  `seen` is the run's
\* counter as it was when the call began; number and insert are one atomic
\* step (spec 5), so the number comes from the counter as it is now.
EventLogStorage_next_sequence(es, run_id, seen) == es.seq[run_id] + 1

\* AssetRecord update: replaced iff the incoming cursor is greater.
AssetRecordAfter(record, entry) ==
    IF IsNone(record) \/ entry.seq > record[1].seq THEN Scalar(entry) ELSE record

EventLogStorage_store_event_at(es, event, seen) ==
    LET n == EventLogStorage_next_sequence(es, event.run_id, seen)
        entry == [run_id |-> event.run_id, seq |-> n, type |-> event.type,
                  asset_key |-> event.asset_key]
        counted == [es EXCEPT !.log[event.run_id] = Append(@, entry),
                              !.seq[event.run_id] = IF n > @ THEN n ELSE @]
    IN [store |->
           IF event.type = "ASSET_MATERIALIZATION"
           THEN [counted EXCEPT !.assets[event.asset_key[1]] = AssetRecordAfter(@, entry)]
           ELSE counted,
        result |-> Ok(Scalar(n))]

EventLogStorage_store_event(es, event) ==
    EventLogStorage_failing(es,
        EventLogStorage_store_event_at(es, event, es.seq[event.run_id]))

\* cursor: None or <<n>> (exclusive); of_type: None or <<set of types>>;
\* limit: None or <<n>>.
EventLogStorage_get_logs_for_run(es, run_id, cursor, of_type, limit) ==
    LET all == es.log[run_id]
        keep == {e \in Range(all) :
                    /\ (IsNone(cursor) \/ e.seq > cursor[1])
                    /\ (IsNone(of_type) \/ e.type \in of_type[1])}
    IN EventLogStorage_failing(es,
           [store |-> es, result |-> Ok(Take(SelectSeqBy(all, keep), limit))])

\* Every stored entry, asset record and partition key is deleted; the
\* numbering starts anew.
EventLogStorage_wipe(es) ==
    [store |-> [es EXCEPT !.log = EmptyEventLogStorage.log,
                          !.seq = EmptyEventLogStorage.seq,
                          !.assets = EmptyEventLogStorage.assets,
                          !.partitions = EmptyEventLogStorage.partitions],
     result |-> Ok(None)]

EventLogStorage_get_latest_materialization_events(es, asset_keys) ==
    [store |-> es, result |-> Ok(Scalar([k \in asset_keys |-> es.assets[k]]))]

EventLogStorage_get_partitions(es, partitions_def_name) ==
    [store |-> es, result |-> Ok(es.partitions[partitions_def_name])]

EventLogStorage_has_partition(es, partitions_def_name, partition_key) ==
    [store |-> es,
     result |-> Ok(Scalar(partition_key \in Range(es.partitions[partitions_def_name])))]

RECURSIVE AddKeys(_, _)
AddKeys(existing, partition_keys) ==
    IF partition_keys = <<>> THEN existing
    ELSE AddKeys(IF Head(partition_keys) \in Range(existing) THEN existing
                 ELSE Append(existing, Head(partition_keys)),
                 Tail(partition_keys))

EventLogStorage_add_partitions(es, partitions_def_name, partition_keys) ==
    [store |-> [es EXCEPT !.partitions[partitions_def_name] = AddKeys(@, partition_keys)],
     result |-> Ok(None)]

EventLogStorage_delete_partition(es, partitions_def_name, partition_key) ==
    [store |-> [es EXCEPT !.partitions[partitions_def_name] =
                              SelectSeqBy(@, Range(@) \ {partition_key})],
     result |-> Ok(None)]

(***************************************************************************)
(* PollingWatcher (spec 4.5, 5, 6, 7).  One watcher per (run, handler):    *)
(* status is Unregistered, Active, Stopping (end_watch has set the         *)
(* cancellation flag and the loop has not looked at it yet) or Stopped;    *)
(* cursor is the last delivered sequence number; failures counts the       *)
(* callback's consecutive failures; idle counts the consecutive empty      *)
(* polls since the run ended; blocked says the loop is inside a callback   *)
(* that has not returned; stopped_by and error say why the watcher stopped *)
(* and what was reported to the party that registered it.                  *)
(***************************************************************************)
MaxConsecutiveFailures == 2
GracePeriod == 2
BatchLimits == {1, 2}
CallbackOutcomes == {"returns", "raises", "blocks"}

\* cursor: the sequence number after which delivery starts.
EventLogStorage_watch(es, run_id, cursor, callback) ==
    [store |-> [es EXCEPT !.watchers[<<run_id, callback>>] =
                   [NoWatcher EXCEPT !.status = "Active", !.cursor = cursor]],
     result |-> Ok(None)]

EventLogStorage_end_watch(es, run_id, handler) ==
    [store |-> IF es.watchers[<<run_id, handler>>].status = "Active"
               THEN [es EXCEPT !.watchers[<<run_id, handler>>].status = "Stopping",
                               !.watchers[<<run_id, handler>>].stopped_by = "end_watch"]
               ELSE es,
     result |-> Ok(None)]

\* Mutant: one poll loop serves every subscriber of the run, so a callback
\* that has not returned holds up all of them.
PollingWatcher_can_poll_shared_loop(es, run_id, handler) ==
    /\ es.watchers[<<run_id, handler>>].status \in {"Active", "Stopping"}
    /\ \A h \in Handlers : ~es.watchers[<<run_id, h>>].blocked

\* The watcher's loop can start its next iteration.
PollingWatcher_can_poll(es, run_id, handler) ==
    /\ es.watchers[<<run_id, handler>>].status \in {"Active", "Stopping"}
    /\ ~es.watchers[<<run_id, handler>>].blocked

\* Mutant: a callback that returns leaves the failure count as it is.
PollingWatcher_callback_returned_keeps_count(w) == w

PollingWatcher_callback_returned(w) == [w EXCEPT !.failures = 0]

\* Mutant: a failing subscriber is never unregistered.
PollingWatcher_callback_raised_forever(w) == [w EXCEPT !.failures = @ + 1]

PollingWatcher_callback_raised(w) ==
    IF w.failures + 1 >= MaxConsecutiveFailures
    THEN [w EXCEPT !.failures = @ + 1, !.status = "Stopped",
                   !.stopped_by = "callback_failures"]
    ELSE [w EXCEPT !.failures = @ + 1]

\* The callback is invoked once per entry, in the order read; the cursor
\* moves to each entry whose callback has returned or raised.
RECURSIVE PollingWatcher_dispatch(_, _, _, _)
PollingWatcher_dispatch(w, entries, outcomes, invoked) ==
    IF entries = <<>> \/ w.status # "Active" \/ w.blocked
    THEN [watcher |-> w, invoked |-> invoked]
    ELSE LET entry == Head(entries)
             called == Append(invoked, entry.seq)
             moved == [w EXCEPT !.cursor = entry.seq]
         IN IF Head(outcomes) = "blocks"
            THEN [watcher |-> [w EXCEPT !.blocked = TRUE], invoked |-> called]
            ELSE PollingWatcher_dispatch(
                     IF Head(outcomes) = "raises"
                     THEN PollingWatcher_callback_raised(moved)
                     ELSE PollingWatcher_callback_returned(moved),
                     Tail(entries), Tail(outcomes), called)

\* Mutant: a failed read is swallowed and the loop polls again later.
PollingWatcher_read_failed_retries(w, error) == [watcher |-> w, error |-> ""]

\* A failed read stops the watcher; the error goes to whoever registered it.
PollingWatcher_read_failed(w, error) ==
    [watcher |-> [w EXCEPT !.status = "Stopped", !.stopped_by = "read_error",
                           !.error = error],
     error |-> error]

\* Mutant: the watcher stops at the first empty poll after the run ended.
PollingWatcher_nothing_new_no_grace(w, terminated) ==
    IF terminated
    THEN [w EXCEPT !.idle = @ + 1, !.status = "Stopped", !.stopped_by = "run_ended"]
    ELSE [w EXCEPT !.idle = 0]

\* An empty poll: the watcher sleeps, and stops once the run has ended and
\* the grace period has passed with nothing new.
PollingWatcher_nothing_new(w, terminated) ==
    IF ~terminated THEN [w EXCEPT !.idle = 0]
    ELSE IF w.idle + 1 >= GracePeriod
    THEN [w EXCEPT !.idle = @ + 1, !.status = "Stopped", !.stopped_by = "run_ended"]
    ELSE [w EXCEPT !.idle = @ + 1]

\* The read of one loop iteration: get_logs_for_run after the watcher's
\* cursor.  fault: None or <<the error the backend raises from the read>>.
PollingWatcher_read(es, run_id, handler, batch_limit, fault) ==
    IF IsNone(fault)
    THEN EventLogStorage_get_logs_for_run(es, run_id,
             Scalar(es.watchers[<<run_id, handler>>].cursor), None,
             Scalar(batch_limit)).result
    ELSE Raise(fault[1])

\* One iteration of the watcher's loop: the cancellation flag is looked at
\* first, then the read is acted upon.  terminated: the run has ended;
\* read: what the iteration's read returns; outcomes: what the callback
\* does at each invocation.
PollingWatcher_poll(es, terminated, run_id, handler, read, outcomes) ==
    LET w == es.watchers[<<run_id, handler>>]
        failed == PollingWatcher_read_failed(w, read.error)
        done == IF w.status = "Stopping"
                    THEN [watcher |-> [w EXCEPT !.status = "Stopped"], invoked |-> <<>>,
                          error |-> ""]
                ELSE IF read.error # ""
                    THEN [watcher |-> failed.watcher, invoked |-> <<>>,
                          error |-> failed.error]
                ELSE IF read.value = <<>>
                    THEN [watcher |-> PollingWatcher_nothing_new(w, terminated),
                          invoked |-> <<>>, error |-> ""]
                ELSE [error |-> ""] @@ PollingWatcher_dispatch([w EXCEPT !.idle = 0],
                                                               read.value, outcomes, <<>>)
    IN [store |-> [es EXCEPT !.watchers[<<run_id, handler>>] = done.watcher],
        invoked |-> done.invoked,
        result |-> IF done.error = "" THEN Ok(None) ELSE Raise(done.error)]

(***************************************************************************)
(* ScheduleStore (spec 4.3).  states is the set of InstigatorStates, at    *)
(* most one per (origin id, selector id); ticks is the set of              *)
(* InstigatorTicks, tick_seq the number of ticks created so far.           *)
(***************************************************************************)
OriginIds == {"o1", "o2"}
SelectorIds == {"s1", "s2"}
InstigatorTypes == {"SCHEDULE", "SENSOR"}
InstigatorStatuses == {"RUNNING", "STOPPED"}

\* The repository an instigator belongs to is part of its origin and of its
\* selector.
RepositoryOriginId(origin_id) == IF origin_id = "o1" THEN "ro1" ELSE "ro2"
RepositorySelectorId(selector_id) == IF selector_id = "s1" THEN "rs1" ELSE "rs2"

EmptyScheduleStorage == [states |-> {}, ticks |-> {}, tick_seq |-> 0]

StatesAt(ss, origin_id, selector_id) ==
    {s \in ss.states : s.origin_id = origin_id /\ s.selector_id = selector_id}

\* Each filter: None or <<value>>.
ScheduleStorage_all_instigator_state(ss, repository_origin_id, repository_selector_id, instigator_type) ==
    [store |-> ss,
     result |-> Ok(Scalar({s \in ss.states :
        /\ (IsNone(repository_origin_id)
             \/ RepositoryOriginId(s.origin_id) = repository_origin_id[1])
        /\ (IsNone(repository_selector_id)
             \/ RepositorySelectorId(s.selector_id) = repository_selector_id[1])
        /\ (IsNone(instigator_type) \/ s.instigator_type = instigator_type[1])}))]

ScheduleStorage_get_instigator_state(ss, origin_id, selector_id) ==
    LET found == StatesAt(ss, origin_id, selector_id) IN
    [store |-> ss,
     result |-> Ok(IF found = {} THEN None ELSE Scalar(CHOOSE s \in found : TRUE))]

ScheduleStorage_add_instigator_state(ss, state) ==
    IF StatesAt(ss, state.origin_id, state.selector_id) # {}
    THEN [store |-> ss, result |-> Raise("AlreadyExists")]
    ELSE [store |-> [ss EXCEPT !.states = @ \cup {state}], result |-> Ok(Scalar(state))]

ScheduleStorage_update_instigator_state(ss, state) ==
    LET old == StatesAt(ss, state.origin_id, state.selector_id) IN
    IF old = {}
    THEN [store |-> ss, result |-> Raise("NotFound")]
    ELSE [store |-> [ss EXCEPT !.states = (@ \ old) \cup {state}],
          result |-> Ok(Scalar(state))]

ScheduleStorage_delete_instigator_state(ss, origin_id, selector_id) ==
    LET old == StatesAt(ss, origin_id, selector_id) IN
    IF old = {}
    THEN [store |-> ss, result |-> Raise("NotFound")]
    ELSE [store |-> [ss EXCEPT !.states = @ \ old], result |-> Ok(None)]

\* Every stored state and tick is deleted; tick ids are not used again.
ScheduleStorage_wipe(ss) ==
    [store |-> [ss EXCEPT !.states = {}, !.ticks = {}], result |-> Ok(None)]

\* Tick history.  A tick is [tick_id, origin_id, selector_id, status,
\* timestamp]; tick_data is a tick without its id.
TickStatuses == {"STARTED", "SUCCESS", "SKIPPED", "FAILURE"}

TicksOf(ss, origin_id, selector_id) ==
    {t \in ss.ticks : t.origin_id = origin_id /\ t.selector_id = selector_id}

\* Later timestamp first; of two ticks with one timestamp, the later created.
Newer(a, b) ==
    \/ a.timestamp > b.timestamp
    \/ a.timestamp = b.timestamp /\ a.tick_id > b.tick_id

RECURSIVE NewestFirst(_)
NewestFirst(ticks) ==
    IF ticks = {} THEN <<>>
    ELSE LET newest == CHOOSE t \in ticks : \A o \in ticks \ {t} : Newer(t, o)
         IN <<newest>> \o NewestFirst(ticks \ {newest})

ScheduleStorage_create_tick(ss, tick_data) ==
    LET tick == [tick_id |-> ss.tick_seq + 1, origin_id |-> tick_data.origin_id,
                 selector_id |-> tick_data.selector_id, status |-> tick_data.status,
                 timestamp |-> tick_data.timestamp]
    IN [store |-> [ss EXCEPT !.ticks = @ \cup {tick}, !.tick_seq = @ + 1],
        result |-> Ok(Scalar(tick))]

\* Only the status of the stored tick with that id changes.
ScheduleStorage_update_tick(ss, tick) ==
    [store |-> [ss EXCEPT !.ticks =
                    {IF t.tick_id = tick.tick_id THEN [t EXCEPT !.status = tick.status]
                     ELSE t : t \in @}],
     result |-> Ok(Scalar(tick))]

\* before, after, limit, statuses: None or <<value>>.
ScheduleStorage_get_ticks(ss, origin_id, selector_id, before, after, limit, statuses) ==
    LET match == {t \in TicksOf(ss, origin_id, selector_id) :
                    /\ (IsNone(before) \/ t.timestamp < before[1])
                    /\ (IsNone(after) \/ t.timestamp > after[1])
                    /\ (IsNone(statuses) \/ t.status \in statuses[1])}
    IN [store |-> ss, result |-> Ok(Take(NewestFirst(match), limit))]

\* tick_statuses: None or <<set of statuses>>.
ScheduleStorage_purge_ticks(ss, origin_id, selector_id, before, tick_statuses) ==
    LET purged == {t \in TicksOf(ss, origin_id, selector_id) :
                     /\ t.timestamp < before
                     /\ (IsNone(tick_statuses) \/ t.status \in tick_statuses[1])}
    IN [store |-> [ss EXCEPT !.ticks = @ \ purged], result |-> Ok(None)]

(***************************************************************************)
(* The facades.  A DagsterStorage backend exposes its three role stores as *)
(* run_storage, event_log_storage and schedule_storage; CompositeStorage   *)
(* keeps the three stores it was given and returns them from the same      *)
(* three properties.  An adapter call returns [storage, result]: the       *)
(* backend after the call and what the caller gets.                        *)
(***************************************************************************)
CompositeStorage_init(run_storage, event_log_storage, schedule_storage) ==
    [_run_storage |-> run_storage,
     _event_log_storage |-> event_log_storage,
     _schedule_storage |-> schedule_storage]

\* Mutant: the property returns the run store.
CompositeStorage_event_log_storage_as_run_storage(self) == self._run_storage

CompositeStorage_event_log_storage(self) == self._event_log_storage
CompositeStorage_run_storage(self) == self._run_storage
CompositeStorage_schedule_storage(self) == self._schedule_storage

\* A single backend implementing all three roles.
UnifiedStorage_init ==
    [run_storage |-> EmptyRunStorage,
     event_log_storage |-> EmptyEventLogStorage,
     schedule_storage |-> EmptyScheduleStorage]

\* The backend after a call on one of its role stores, with the call's result.
InRunStorage(storage, out) ==
    [storage |-> [storage EXCEPT !.run_storage = out.store], result |-> out.result]
InEventLogStorage(storage, out) ==
    [storage |-> [storage EXCEPT !.event_log_storage = out.store], result |-> out.result]
InScheduleStorage(storage, out) ==
    [storage |-> [storage EXCEPT !.schedule_storage = out.store], result |-> out.result]

InCompositeRunStorage(self, out) ==
    [storage |-> [self EXCEPT !._run_storage = out.store], result |-> out.result]
InCompositeEventLogStorage(self, out) ==
    [storage |-> [self EXCEPT !._event_log_storage = out.store], result |-> out.result]
InCompositeScheduleStorage(self, out) ==
    [storage |-> [self EXCEPT !._schedule_storage = out.store], result |-> out.result]

(***************************************************************************)
(* LegacyRunStorage                                                        *)
(***************************************************************************)
\* Mutant: an error of the store is caught and the run returned.
LegacyRunStorage_add_run_swallows(storage, pipeline_run) ==
    LET out == InRunStorage(storage,
                   RunStorage_add_run(storage.run_storage, pipeline_run))
    IN IF out.result.error = "" THEN out
       ELSE [storage |-> out.storage, result |-> Ok(Scalar(pipeline_run))]

LegacyRunStorage_add_run(storage, pipeline_run) ==
    InRunStorage(storage, RunStorage_add_run(storage.run_storage, pipeline_run))

\* Mutant: the adapter writes the event's status on the run itself.
LegacyRunStorage_handle_run_event_sets_status(storage, run_id, event) ==
    LET i == RunIndex(storage.run_storage, run_id)
        new == EventStatus(event)
    IN IF i = 0 \/ IsNone(new) THEN [storage |-> storage, result |-> Ok(None)]
       ELSE [storage |-> [storage EXCEPT !.run_storage[i].status = new[1]],
             result |-> Ok(None)]

\* Mutant: the adapter insists that the run exists.
LegacyRunStorage_handle_run_event_checked(storage, run_id, event) ==
    IF RunStorage_has_run(storage.run_storage, run_id).result.value = Scalar(FALSE)
    THEN [storage |-> storage, result |-> Raise("CheckError")]
    ELSE InRunStorage(storage,
             RunStorage_handle_run_event(storage.run_storage, run_id, event))

LegacyRunStorage_handle_run_event(storage, run_id, event) ==
    InRunStorage(storage, RunStorage_handle_run_event(storage.run_storage, run_id, event))

\* Mutant: the cursor is not forwarded.
LegacyRunStorage_get_runs_drops_cursor(storage, filters, cursor, limit, bucket_by) ==
    InRunStorage(storage,
        RunStorage_get_runs(storage.run_storage, filters, None, limit, bucket_by))

LegacyRunStorage_get_runs(storage, filters, cursor, limit, bucket_by) ==
    InRunStorage(storage,
        RunStorage_get_runs(storage.run_storage, filters, cursor, limit, bucket_by))

\* Mutant: forwarded to has_snapshot, which knows no snapshot of that id.
LegacyRunStorage_has_run_as_has_snapshot(storage, run_id) ==
    [storage |-> storage, result |-> Ok(Scalar(FALSE))]

LegacyRunStorage_has_run(storage, run_id) ==
    InRunStorage(storage, RunStorage_has_run(storage.run_storage, run_id))

LegacyRunStorage_wipe(storage) ==
    InRunStorage(storage, RunStorage_wipe(storage.run_storage))

LegacyRunStorage_delete_run(storage, run_id) ==
    InRunStorage(storage, RunStorage_delete_run(storage.run_storage, run_id))

(***************************************************************************)
(* LegacyEventLogStorage                                                   *)
(***************************************************************************)
\* Mutant: only run_id is forwarded.
LegacyEventLogStorage_get_logs_for_run_run_id_only(storage, run_id, cursor, of_type, limit) ==
    InEventLogStorage(storage,
        EventLogStorage_get_logs_for_run(storage.event_log_storage, run_id, None, None,
                                         None))

LegacyEventLogStorage_get_logs_for_run(storage, run_id, cursor, of_type, limit) ==
    InEventLogStorage(storage,
        EventLogStorage_get_logs_for_run(storage.event_log_storage, run_id, cursor,
                                         of_type, limit))

\* Mutant: the store's result is not returned.
\* Mutant: a call that raised is made once more.
LegacyEventLogStorage_store_event_retries(storage, event) ==
    LET first == InEventLogStorage(storage,
                     EventLogStorage_store_event(storage.event_log_storage, event))
    IN IF first.result.error = "" THEN first
       ELSE InEventLogStorage(first.storage,
                EventLogStorage_store_event(first.storage.event_log_storage, event))

LegacyEventLogStorage_store_event_no_return(storage, event) ==
    [storage |->
        [storage EXCEPT !.event_log_storage =
            EventLogStorage_store_event(storage.event_log_storage, event).store],
     result |-> Ok(None)]

LegacyEventLogStorage_store_event(storage, event) ==
    InEventLogStorage(storage,
        EventLogStorage_store_event(storage.event_log_storage, event))

\* Mutant: the requested keys are not forwarded.
LegacyEventLogStorage_get_latest_materialization_events_no_keys(storage, asset_keys) ==
    InEventLogStorage(storage,
        EventLogStorage_get_latest_materialization_events(storage.event_log_storage, {}))

LegacyEventLogStorage_get_latest_materialization_events(storage, asset_keys) ==
    InEventLogStorage(storage,
        EventLogStorage_get_latest_materialization_events(storage.event_log_storage,
                                                          asset_keys))

LegacyEventLogStorage_get_partitions(storage, partitions_def_name) ==
    InEventLogStorage(storage,
        EventLogStorage_get_partitions(storage.event_log_storage, partitions_def_name))

LegacyEventLogStorage_has_partition(storage, partitions_def_name, partition_key) ==
    InEventLogStorage(storage,
        EventLogStorage_has_partition(storage.event_log_storage, partitions_def_name,
                                      partition_key))

\* Mutant: the adapter refuses keys that are already present.
LegacyEventLogStorage_add_partitions_rejects_existing(storage, partitions_def_name, partition_keys) ==
    IF \E k \in Range(partition_keys) :
           EventLogStorage_has_partition(storage.event_log_storage, partitions_def_name,
                                         k).result.value = Scalar(TRUE)
    THEN [storage |-> storage, result |-> Raise("AlreadyExists")]
    ELSE InEventLogStorage(storage,
             EventLogStorage_add_partitions(storage.event_log_storage,
                                            partitions_def_name, partition_keys))

LegacyEventLogStorage_add_partitions(storage, partitions_def_name, partition_keys) ==
    InEventLogStorage(storage,
        EventLogStorage_add_partitions(storage.event_log_storage, partitions_def_name,
                                       partition_keys))

LegacyEventLogStorage_delete_partition(storage, partitions_def_name, partition_key) ==
    InEventLogStorage(storage,
        EventLogStorage_delete_partition(storage.event_log_storage, partitions_def_name,
                                         partition_key))

LegacyEventLogStorage_wipe(storage) ==
    InEventLogStorage(storage, EventLogStorage_wipe(storage.event_log_storage))

\* Mutant: the cursor is not forwarded and the watch starts at the beginning.
LegacyEventLogStorage_watch_drops_cursor(storage, run_id, cursor, callback) ==
    InEventLogStorage(storage,
        EventLogStorage_watch(storage.event_log_storage, run_id, 0, callback))

LegacyEventLogStorage_watch(storage, run_id, cursor, callback) ==
    InEventLogStorage(storage,
        EventLogStorage_watch(storage.event_log_storage, run_id, cursor, callback))

\* Mutant: the adapter insists that the handler is being watched.
LegacyEventLogStorage_end_watch_checked(storage, run_id, handler) ==
    IF storage.event_log_storage.watchers[<<run_id, handler>>].status # "Active"
    THEN [storage |-> storage, result |-> Raise("CheckError")]
    ELSE InEventLogStorage(storage,
             EventLogStorage_end_watch(storage.event_log_storage, run_id, handler))

\* Mutant: the call is not forwarded to the store.
LegacyEventLogStorage_end_watch_not_forwarded(storage, run_id, handler) ==
    [storage |-> storage, result |-> Ok(None)]

\* Mutant: the handler is not forwarded and every handler of the run is
\* deregistered.
LegacyEventLogStorage_end_watch_whole_run(storage, run_id, handler) ==
    [storage |->
        [storage EXCEPT !.event_log_storage.watchers =
            [k \in WatchKeys |->
                IF k[1] = run_id
                THEN EventLogStorage_end_watch(storage.event_log_storage, k[1],
                                               k[2]).store.watchers[k]
                ELSE @[k]]],
     result |-> Ok(None)]

LegacyEventLogStorage_end_watch(storage, run_id, handler) ==
    InEventLogStorage(storage,
        EventLogStorage_end_watch(storage.event_log_storage, run_id, handler))

(***************************************************************************)
(* LegacyScheduleStorage                                                   *)
(***************************************************************************)
\* Mutant: wipe is called on the whole storage.
LegacyScheduleStorage_wipe_whole_storage(storage) ==
    [storage |-> [run_storage |-> RunStorage_wipe(storage.run_storage).store,
                  event_log_storage |->
                      EventLogStorage_wipe(storage.event_log_storage).store,
                  schedule_storage |->
                      ScheduleStorage_wipe(storage.schedule_storage).store],
     result |-> Ok(None)]

LegacyScheduleStorage_wipe(storage) ==
    InScheduleStorage(storage, ScheduleStorage_wipe(storage.schedule_storage))

\* The three filters are accepted and the store is called with none of them.
LegacyScheduleStorage_all_instigator_state(storage, repository_origin_id, repository_selector_id, instigator_type) ==
    InScheduleStorage(storage,
        ScheduleStorage_all_instigator_state(storage.schedule_storage, None, None, None))

LegacyScheduleStorage_get_instigator_state(storage, origin_id, selector_id) ==
    InScheduleStorage(storage,
        ScheduleStorage_get_instigator_state(storage.schedule_storage, origin_id,
                                             selector_id))

\* Mutant: a state whose key is present is overwritten instead.
LegacyScheduleStorage_add_instigator_state_upserts(storage, state) ==
    InScheduleStorage(storage,
        IF StatesAt(storage.schedule_storage, state.origin_id, state.selector_id) = {}
        THEN ScheduleStorage_add_instigator_state(storage.schedule_storage, state)
        ELSE ScheduleStorage_update_instigator_state(storage.schedule_storage, state))

LegacyScheduleStorage_add_instigator_state(storage, state) ==
    InScheduleStorage(storage,
        ScheduleStorage_add_instigator_state(storage.schedule_storage, state))

LegacyScheduleStorage_update_instigator_state(storage, state) ==
    InScheduleStorage(storage,
        ScheduleStorage_update_instigator_state(storage.schedule_storage, state))

\* Mutant: the store's error for a missing key is swallowed.
LegacyScheduleStorage_delete_instigator_state_silent(storage, origin_id, selector_id) ==
    LET out == InScheduleStorage(storage,
                   ScheduleStorage_delete_instigator_state(storage.schedule_storage,
                                                           origin_id, selector_id))
    IN IF out.result.error = "NotFound"
       THEN [storage |-> out.storage, result |-> Ok(None)]
       ELSE out

LegacyScheduleStorage_delete_instigator_state(storage, origin_id, selector_id) ==
    InScheduleStorage(storage,
        ScheduleStorage_delete_instigator_state(storage.schedule_storage, origin_id,
                                                selector_id))

LegacyScheduleStorage_get_ticks(storage, origin_id, selector_id, before, after, limit, statuses) ==
    InScheduleStorage(storage,
        ScheduleStorage_get_ticks(storage.schedule_storage, origin_id, selector_id,
                                  before, after, limit, statuses))

LegacyScheduleStorage_create_tick(storage, tick_data) ==
    InScheduleStorage(storage,
        ScheduleStorage_create_tick(storage.schedule_storage, tick_data))

\* Mutant: the tick is handed to create_tick.
LegacyScheduleStorage_update_tick_creates(storage, tick) ==
    InScheduleStorage(storage, ScheduleStorage_create_tick(storage.schedule_storage, tick))

LegacyScheduleStorage_update_tick(storage, tick) ==
    InScheduleStorage(storage, ScheduleStorage_update_tick(storage.schedule_storage, tick))

\* Mutant: the status restriction is not forwarded.
LegacyScheduleStorage_purge_ticks_any_status(storage, origin_id, selector_id, before, tick_statuses) ==
    InScheduleStorage(storage,
        ScheduleStorage_purge_ticks(storage.schedule_storage, origin_id, selector_id,
                                    before, None))

LegacyScheduleStorage_purge_ticks(storage, origin_id, selector_id, before, tick_statuses) ==
    InScheduleStorage(storage,
        ScheduleStorage_purge_ticks(storage.schedule_storage, origin_id, selector_id,
                                    before, tick_statuses))

(***************************************************************************)
(* Inputs of the operations.                                               *)
(***************************************************************************)
RunInputs == [run_id : RunIds, status : {"QUEUED"}, tags : TagSets]

EventInputs ==
    {[run_id |-> r, type |-> "STEP_OUTPUT", asset_key |-> None] : r \in RunIds}
    \cup {[run_id |-> r, type |-> "ASSET_MATERIALIZATION", asset_key |-> Scalar(k)] :
             r \in RunIds, k \in AssetKeys}

Optional(S) == {None} \cup {Scalar(x) : x \in S}

\* Arguments the read actions are called with.
Cursors == Optional({0, 1})
Limits == Optional({1, 2})
TypeFilters == Optional({{"ASSET_MATERIALIZATION"}})
AssetKeyLists == {{"a1"}, {"a1", "a2"}}
StatusFilters == Optional({{"QUEUED"}, {"STARTED", "SUCCESS"}})
PartitionKeyLists == {<<"p1">>, <<"p2">>, <<"p1", "p2">>, <<"p2", "p2">>}

InstigatorStates ==
    [origin_id : OriginIds, selector_id : SelectorIds,
     instigator_type : InstigatorTypes, status : InstigatorStatuses]

TotalEvents(es) == es.seq["r1"] + es.seq["r2"]

\* Cursors a watch starts from.
StartCursors == {0, 1}

(***************************************************************************)
(* The facades as objects.  A store or backend instance is named by a      *)
(* string; a facade or adapter holds the names it was constructed with.    *)
(***************************************************************************)
Roles == {"run_storage", "event_log_storage", "schedule_storage"}
Adapters == {"LegacyRunStorage", "LegacyEventLogStorage", "LegacyScheduleStorage"}

LegacyRunStorage_init(storage) == [_storage |-> storage]
LegacyEventLogStorage_init(storage) == [_storage |-> storage]
LegacyScheduleStorage_init(storage) == [_storage |-> storage]

\* Construction from configuration.  A backend is configured by the name of
\* its class; rehydrate makes an instance of a class it can find and raises
\* for a name it cannot resolve.
BackendClasses ==
    [run_storage |-> "SqliteRunStorage", event_log_storage |-> "SqliteEventLogStorage",
     schedule_storage |-> "SqliteScheduleStorage", storage |-> "DagsterSqliteStorage"]
UnknownClass == "NoSuchStorage"

ConfigurableClassData_rehydrate(class_name) ==
    CASE class_name = "SqliteRunStorage" -> Ok(Scalar("run_storage#2"))
      [] class_name = "SqliteEventLogStorage" -> Ok(Scalar("event_log_storage#2"))
      [] class_name = "SqliteScheduleStorage" -> Ok(Scalar("schedule_storage#2"))
      [] class_name = "DagsterSqliteStorage" -> Ok(Scalar("storage#2"))
      [] OTHER -> Raise("UnknownBackend")

\* Mutant: the configuration is kept and a backend is resolved when it is
\* first used.
CompositeStorage_from_config_value_lazy(config_value) ==
    Ok(Scalar(CompositeStorage_init(config_value.run_storage,
                                    config_value.event_log_storage,
                                    config_value.schedule_storage)))

\* config_value: [role -> class name].  The result's value is the facade.
CompositeStorage_from_config_value(config_value) ==
    LET run_storage == ConfigurableClassData_rehydrate(config_value.run_storage)
        event_log_storage ==
            ConfigurableClassData_rehydrate(config_value.event_log_storage)
        schedule_storage ==
            ConfigurableClassData_rehydrate(config_value.schedule_storage)
    IN IF run_storage.error # "" THEN Raise(run_storage.error)
       ELSE IF event_log_storage.error # "" THEN Raise(event_log_storage.error)
       ELSE IF schedule_storage.error # "" THEN Raise(schedule_storage.error)
       ELSE Ok(Scalar(CompositeStorage_init(run_storage.value[1],
                                            event_log_storage.value[1],
                                            schedule_storage.value[1])))

\* config_value: the class name of the backend.  The result's value is the
\* adapter.
LegacyScheduleStorage_from_config_value(config_value) ==
    LET storage == ConfigurableClassData_rehydrate(config_value)
    IN IF storage.error # "" THEN Raise(storage.error)
       ELSE Ok(Scalar(LegacyScheduleStorage_init(storage.value[1])))

\* The value of the property `role` of a Composite facade.
CompositeStorage_property(self, role) ==
    CASE role = "run_storage" -> CompositeStorage_run_storage(self)
      [] role = "event_log_storage" -> CompositeStorage_event_log_storage(self)
      [] role = "schedule_storage" -> CompositeStorage_schedule_storage(self)

\* The backend the three role adapters share, as an object: the instance it
\* is registered with (None until there is one) and the instances its
\* register_instance was called with, in order.
EmptyBackend == [_instance |-> None, registered |-> <<>>]

DagsterStorage_register_instance(backend, instance) ==
    [backend EXCEPT !._instance = Scalar(instance), !.registered = Append(@, instance)]

LegacyRunStorage_instance(backend) == backend._instance

LegacyEventLogStorage_instance(backend) == backend._instance

LegacyScheduleStorage_instance(backend) == backend._instance

LegacyRunStorage_register_instance(backend, instance) ==
    IF IsNone(backend._instance) THEN DagsterStorage_register_instance(backend, instance)
    ELSE backend

LegacyEventLogStorage_register_instance(backend, instance) ==
    IF IsNone(backend._instance) THEN DagsterStorage_register_instance(backend, instance)
    ELSE backend

\* Mutant: the schedule adapter registers the instance whatever the backend
\* already has.
LegacyScheduleStorage_register_instance_always(backend, instance) ==
    DagsterStorage_register_instance(backend, instance)

LegacyScheduleStorage_register_instance(backend, instance) ==
    IF IsNone(backend._instance) THEN DagsterStorage_register_instance(backend, instance)
    ELSE backend

\* The resources of a role store of the backend (connections, file handles)
\* are unopened, open or released; disposed counts the calls of its
\* dispose.  dispose releases what is open and is safe otherwise.
UndisposedStore == [resources |-> "unopened", disposed |-> 0]

RunStorage_dispose(store) ==
    [store |-> [resources |-> IF store.resources = "open" THEN "released"
                              ELSE store.resources,
                disposed |-> store.disposed + 1],
     result |-> Ok(None)]

EventLogStorage_dispose(store) ==
    [store |-> [resources |-> IF store.resources = "open" THEN "released"
                              ELSE store.resources,
                disposed |-> store.disposed + 1],
     result |-> Ok(None)]

ScheduleStorage_dispose(store) ==
    [store |-> [resources |-> IF store.resources = "open" THEN "released"
                              ELSE store.resources,
                disposed |-> store.disposed + 1],
     result |-> Ok(None)]

\* stores: the three role stores of the adapters' backend.
\* Mutant: the run adapter disposes every store of the backend.
LegacyRunStorage_dispose_whole_backend(stores) ==
    [stores |-> [run_storage |-> RunStorage_dispose(stores.run_storage).store,
                 event_log_storage |->
                     EventLogStorage_dispose(stores.event_log_storage).store,
                 schedule_storage |->
                     ScheduleStorage_dispose(stores.schedule_storage).store],
     result |-> RunStorage_dispose(stores.run_storage).result]

LegacyRunStorage_dispose(stores) ==
    [stores |-> [stores EXCEPT !.run_storage = RunStorage_dispose(@).store],
     result |-> RunStorage_dispose(stores.run_storage).result]

LegacyEventLogStorage_dispose(stores) ==
    [stores |-> [stores EXCEPT !.event_log_storage = EventLogStorage_dispose(@).store],
     result |-> EventLogStorage_dispose(stores.event_log_storage).result]

LegacyScheduleStorage_dispose(stores) ==
    [stores |-> [stores EXCEPT !.schedule_storage = ScheduleStorage_dispose(@).store],
     result |-> ScheduleStorage_dispose(stores.schedule_storage).result]

\* A Composite facade constructed with three store instances and the three
\* role adapters constructed with one backend; nothing was called yet.
Constructed ==
    [composite |-> CompositeStorage_init("run_storage#1", "event_log_storage#1",
                                         "schedule_storage#1"),
     given |-> [run_storage |-> "run_storage#1",
                event_log_storage |-> "event_log_storage#1",
                schedule_storage |-> "schedule_storage#1",
                storage |-> "storage#1"],
     adapters |-> [LegacyRunStorage |-> LegacyRunStorage_init("storage#1"),
                   LegacyEventLogStorage |-> LegacyEventLogStorage_init("storage#1"),
                   LegacyScheduleStorage |-> LegacyScheduleStorage_init("storage#1")],
     received |-> <<>>,
     backend |-> EmptyBackend,
     registrations |-> <<>>,
     stores |-> [role \in Roles |-> UndisposedStore],
     disposals |-> <<>>]

(***************************************************************************)
(* State after construction: both facades hold empty stores.               *)
(***************************************************************************)
Init ==
    /\ facade = [Unified |-> UnifiedStorage_init,
                 Composite |-> CompositeStorage_init(EmptyRunStorage,
                                                     EmptyEventLogStorage,
                                                     EmptyScheduleStorage)]
    /\ last = [op |-> "init", args |-> <<>>,
               result |-> [Unified |-> Ok(None), Composite |-> Ok(None)]]
    /\ pc = [t \in Threads |-> "idle"]
    /\ pending = [t \in Threads |-> None]
    /\ issued = 0
    /\ subscriber = [f \in Facades |->
                        [k \in WatchKeys |->
                            [watching |-> "never", cursor |-> 0, calls |-> <<>>,
                             outcomes |-> <<>>]]]
    /\ watches = 0
    /\ objects = Constructed

\* One call made on both facades: u and c are the adapter's and the
\* composite's [storage, result].
Call(op, args, u, c) ==
    /\ facade' = [Unified |-> u.storage, Composite |-> c.storage]
    /\ last' = [op |-> op, args |-> args,
                result |-> [Unified |-> u.result, Composite |-> c.result]]

\* A call that involves neither the concurrent callers nor the subscribers.
Step(op, args, u, c) ==
    /\ Call(op, args, u, c)
    /\ UNCHANGED <<pc, pending, issued, subscriber, watches, objects>>

(***************************************************************************)
(* Run store operations                                                    *)
(***************************************************************************)
AddRun ==
    \E pipeline_run \in RunInputs :
        Step("add_run", <<pipeline_run>>,
             LegacyRunStorage_add_run(facade.Unified, pipeline_run),
             InCompositeRunStorage(facade.Composite,
                 RunStorage_add_run(CompositeStorage_run_storage(facade.Composite),
                                    pipeline_run)))

HandleRunEvent ==
    \E run_id \in RunIds, event \in RunEventTypes :
        Step("handle_run_event", <<run_id, event>>,
             LegacyRunStorage_handle_run_event(facade.Unified, run_id, event),
             InCompositeRunStorage(facade.Composite,
                 RunStorage_handle_run_event(CompositeStorage_run_storage(facade.Composite),
                                             run_id, event)))

GetRuns ==
    \E filters \in StatusFilters, cursor \in Optional(RunIds), limit \in Optional({1}) :
        Step("get_runs", <<filters, cursor, limit>>,
             LegacyRunStorage_get_runs(facade.Unified, filters, cursor, limit, None),
             InCompositeRunStorage(facade.Composite,
                 RunStorage_get_runs(CompositeStorage_run_storage(facade.Composite),
                                     filters, cursor, limit, None)))

HasRun ==
    \E run_id \in RunIds :
        Step("has_run", <<run_id>>,
             LegacyRunStorage_has_run(facade.Unified, run_id),
             InCompositeRunStorage(facade.Composite,
                 RunStorage_has_run(CompositeStorage_run_storage(facade.Composite), run_id)))

DeleteRun ==
    \E run_id \in RunIds :
        Step("delete_run", <<run_id>>,
             LegacyRunStorage_delete_run(facade.Unified, run_id),
             InCompositeRunStorage(facade.Composite,
                 RunStorage_delete_run(CompositeStorage_run_storage(facade.Composite),
                                       run_id)))

WipeRuns ==
    Step("wipe", <<>>,
         LegacyRunStorage_wipe(facade.Unified),
         InCompositeRunStorage(facade.Composite,
             RunStorage_wipe(CompositeStorage_run_storage(facade.Composite))))

NextRun == AddRun \/ HandleRunEvent \/ GetRuns \/ HasRun \/ DeleteRun \/ WipeRuns

SpecRun == Init /\ [][NextRun]_vars

\* Runs that are added and whose events are handled, none deleted.
NextRunLife == AddRun \/ HandleRunEvent

SpecRunLife == Init /\ [][NextRunLife]_vars

\* Three runs that are added in any order, start and succeed, and are
\* listed page by page.
PagedRunIds == {"r1", "r2", "r3"}
PageLimits == Optional({1, 2})

AddPagedRun ==
    \E pipeline_run \in [run_id : PagedRunIds, status : {"QUEUED"}, tags : {{}}] :
        Step("add_run", <<pipeline_run>>,
             LegacyRunStorage_add_run(facade.Unified, pipeline_run),
             InCompositeRunStorage(facade.Composite,
                 RunStorage_add_run(CompositeStorage_run_storage(facade.Composite),
                                    pipeline_run)))

PagedRunEvent ==
    \E run_id \in PagedRunIds, event \in {"PIPELINE_START", "PIPELINE_SUCCESS"} :
        Step("handle_run_event", <<run_id, event>>,
             LegacyRunStorage_handle_run_event(facade.Unified, run_id, event),
             InCompositeRunStorage(facade.Composite,
                 RunStorage_handle_run_event(CompositeStorage_run_storage(facade.Composite),
                                             run_id, event)))

GetPagedRuns ==
    \E filters \in StatusFilters, cursor \in Optional(PagedRunIds),
       limit \in PageLimits :
        Step("get_runs", <<filters, cursor, limit>>,
             LegacyRunStorage_get_runs(facade.Unified, filters, cursor, limit, None),
             InCompositeRunStorage(facade.Composite,
                 RunStorage_get_runs(CompositeStorage_run_storage(facade.Composite),
                                     filters, cursor, limit, None)))

NextRunPages == AddPagedRun \/ PagedRunEvent \/ GetPagedRuns

SpecRunPages == Init /\ [][NextRunPages]_vars

(***************************************************************************)
(* Event log operations                                                    *)
(***************************************************************************)
StoreEvent ==
    \E event \in EventInputs :
        /\ TotalEvents(facade.Unified.event_log_storage) < MaxEvents
        /\ Step("store_event", <<event>>,
                LegacyEventLogStorage_store_event(facade.Unified, event),
                InCompositeEventLogStorage(facade.Composite,
                    EventLogStorage_store_event(
                        CompositeStorage_event_log_storage(facade.Composite), event)))

GetLogsForRun ==
    \E run_id \in RunIds, cursor \in Cursors, of_type \in TypeFilters, limit \in Limits :
        Step("get_logs_for_run", <<run_id, cursor, of_type, limit>>,
             LegacyEventLogStorage_get_logs_for_run(facade.Unified, run_id, cursor,
                                                    of_type, limit),
             InCompositeEventLogStorage(facade.Composite,
                 EventLogStorage_get_logs_for_run(
                     CompositeStorage_event_log_storage(facade.Composite), run_id, cursor,
                     of_type, limit)))

GetLatestMaterializationEvents ==
    \E asset_keys \in AssetKeyLists :
        Step("get_latest_materialization_events", <<asset_keys>>,
             LegacyEventLogStorage_get_latest_materialization_events(facade.Unified,
                                                                     asset_keys),
             InCompositeEventLogStorage(facade.Composite,
                 EventLogStorage_get_latest_materialization_events(
                     CompositeStorage_event_log_storage(facade.Composite), asset_keys)))

NextEvent == StoreEvent \/ GetLogsForRun \/ GetLatestMaterializationEvents

SpecEvent == Init /\ [][NextEvent]_vars

(***************************************************************************)
(* Partition operations                                                    *)
(***************************************************************************)
AddPartitions ==
    \E partitions_def_name \in PartitionsDefs, partition_keys \in PartitionKeyLists :
        Step("add_partitions", <<partitions_def_name, partition_keys>>,
             LegacyEventLogStorage_add_partitions(facade.Unified, partitions_def_name,
                                                  partition_keys),
             InCompositeEventLogStorage(facade.Composite,
                 EventLogStorage_add_partitions(
                     CompositeStorage_event_log_storage(facade.Composite),
                     partitions_def_name, partition_keys)))

DeletePartition ==
    \E partitions_def_name \in PartitionsDefs, partition_key \in PartitionKeys :
        Step("delete_partition", <<partitions_def_name, partition_key>>,
             LegacyEventLogStorage_delete_partition(facade.Unified, partitions_def_name,
                                                    partition_key),
             InCompositeEventLogStorage(facade.Composite,
                 EventLogStorage_delete_partition(
                     CompositeStorage_event_log_storage(facade.Composite),
                     partitions_def_name, partition_key)))

GetPartitions ==
    \E partitions_def_name \in PartitionsDefs :
        Step("get_partitions", <<partitions_def_name>>,
             LegacyEventLogStorage_get_partitions(facade.Unified, partitions_def_name),
             InCompositeEventLogStorage(facade.Composite,
                 EventLogStorage_get_partitions(
                     CompositeStorage_event_log_storage(facade.Composite),
                     partitions_def_name)))

HasPartition ==
    \E partitions_def_name \in PartitionsDefs, partition_key \in PartitionKeys :
        Step("has_partition", <<partitions_def_name, partition_key>>,
             LegacyEventLogStorage_has_partition(facade.Unified, partitions_def_name,
                                                 partition_key),
             InCompositeEventLogStorage(facade.Composite,
                 EventLogStorage_has_partition(
                     CompositeStorage_event_log_storage(facade.Composite),
                     partitions_def_name, partition_key)))

NextPartitions == AddPartitions \/ DeletePartition \/ GetPartitions \/ HasPartition

SpecPartitions == Init /\ [][NextPartitions]_vars

(***************************************************************************)
(* Schedule store operations                                               *)
(***************************************************************************)
AddInstigatorState ==
    \E state \in InstigatorStates :
        Step("add_instigator_state", <<state>>,
             LegacyScheduleStorage_add_instigator_state(facade.Unified, state),
             InCompositeScheduleStorage(facade.Composite,
                 ScheduleStorage_add_instigator_state(
                     CompositeStorage_schedule_storage(facade.Composite), state)))

UpdateInstigatorState ==
    \E state \in InstigatorStates :
        Step("update_instigator_state", <<state>>,
             LegacyScheduleStorage_update_instigator_state(facade.Unified, state),
             InCompositeScheduleStorage(facade.Composite,
                 ScheduleStorage_update_instigator_state(
                     CompositeStorage_schedule_storage(facade.Composite), state)))

DeleteInstigatorState ==
    \E origin_id \in OriginIds, selector_id \in SelectorIds :
        Step("delete_instigator_state", <<origin_id, selector_id>>,
             LegacyScheduleStorage_delete_instigator_state(facade.Unified, origin_id,
                                                           selector_id),
             InCompositeScheduleStorage(facade.Composite,
                 ScheduleStorage_delete_instigator_state(
                     CompositeStorage_schedule_storage(facade.Composite), origin_id,
                     selector_id)))

GetInstigatorState ==
    \E origin_id \in OriginIds, selector_id \in SelectorIds :
        Step("get_instigator_state", <<origin_id, selector_id>>,
             LegacyScheduleStorage_get_instigator_state(facade.Unified, origin_id,
                                                        selector_id),
             InCompositeScheduleStorage(facade.Composite,
                 ScheduleStorage_get_instigator_state(
                     CompositeStorage_schedule_storage(facade.Composite), origin_id,
                     selector_id)))

AllInstigatorState ==
    \E repository_origin_id \in Optional({"ro1", "ro2"}),
       repository_selector_id \in Optional({"rs1", "rs2"}),
       instigator_type \in Optional(InstigatorTypes) :
        Step("all_instigator_state",
             <<repository_origin_id, repository_selector_id, instigator_type>>,
             LegacyScheduleStorage_all_instigator_state(facade.Unified,
                 repository_origin_id, repository_selector_id, instigator_type),
             InCompositeScheduleStorage(facade.Composite,
                 ScheduleStorage_all_instigator_state(
                     CompositeStorage_schedule_storage(facade.Composite),
                     repository_origin_id, repository_selector_id, instigator_type)))

NextSchedule ==
    \/ AddInstigatorState
    \/ UpdateInstigatorState
    \/ DeleteInstigatorState
    \/ GetInstigatorState
    \/ AllInstigatorState

SpecSchedule == Init /\ [][NextSchedule]_vars

(***************************************************************************)
(* Tick history operations                                                 *)
(***************************************************************************)
\* Ticks are created for two sensors of one origin, at two instants; a tick's
\* timestamp is the time of its creation, so no stored tick is later than a
\* new one.
Timestamps == {1, 2}
TickDatas ==
    [origin_id : {"o1"}, selector_id : SelectorIds, status : {"STARTED"},
     timestamp : Timestamps]
TickStatusFilters == Optional({{"SUCCESS"}})

CreateTick ==
    /\ facade.Unified.schedule_storage.tick_seq < MaxTicks
    /\ \E tick_data \in TickDatas :
          /\ \A t \in facade.Unified.schedule_storage.ticks :
                t.timestamp <= tick_data.timestamp
          /\ Step("create_tick", <<tick_data>>,
                  LegacyScheduleStorage_create_tick(facade.Unified, tick_data),
                  InCompositeScheduleStorage(facade.Composite,
                      ScheduleStorage_create_tick(
                          CompositeStorage_schedule_storage(facade.Composite),
                          tick_data)))

\* The evaluation a stored tick stands for finishes.
UpdateTick ==
    \E stored \in facade.Unified.schedule_storage.ticks :
        /\ stored.status = "STARTED"
        /\ \E tick \in {[stored EXCEPT !.status = "SUCCESS"]} :
              Step("update_tick", <<tick>>,
                   LegacyScheduleStorage_update_tick(facade.Unified, tick),
                   InCompositeScheduleStorage(facade.Composite,
                       ScheduleStorage_update_tick(
                           CompositeStorage_schedule_storage(facade.Composite), tick)))

PurgeTicks ==
    \E selector_id \in SelectorIds, before \in Timestamps,
       tick_statuses \in TickStatusFilters :
        Step("purge_ticks", <<"o1", selector_id, before, tick_statuses>>,
             LegacyScheduleStorage_purge_ticks(facade.Unified, "o1", selector_id,
                                               before, tick_statuses),
             InCompositeScheduleStorage(facade.Composite,
                 ScheduleStorage_purge_ticks(
                     CompositeStorage_schedule_storage(facade.Composite), "o1",
                     selector_id, before, tick_statuses)))

GetTicks ==
    \E selector_id \in SelectorIds :
        Step("get_ticks", <<"o1", selector_id, None, None, None, None>>,
             LegacyScheduleStorage_get_ticks(facade.Unified, "o1", selector_id,
                                             None, None, None, None),
             InCompositeScheduleStorage(facade.Composite,
                 ScheduleStorage_get_ticks(
                     CompositeStorage_schedule_storage(facade.Composite), "o1",
                     selector_id, None, None, None, None)))

\* Ticks a caller may hand to update_tick: of any id, also with another
\* selector or timestamp than the stored tick of that id has.
UpdatedTicks ==
    [tick_id : 1..MaxUpdatedTicks, origin_id : {"o1"}, selector_id : SelectorIds,
     status : {"SUCCESS", "FAILURE"}, timestamp : Timestamps]

UpdateAnyTick ==
    \E tick \in UpdatedTicks :
        Step("update_tick", <<tick>>,
             LegacyScheduleStorage_update_tick(facade.Unified, tick),
             InCompositeScheduleStorage(facade.Composite,
                 ScheduleStorage_update_tick(
                     CompositeStorage_schedule_storage(facade.Composite), tick)))

NextTicks == CreateTick \/ UpdateTick \/ PurgeTicks \/ GetTicks

SpecTicks == Init /\ [][NextTicks]_vars

CreateUpdatedTick ==
    /\ facade.Unified.schedule_storage.tick_seq < MaxUpdatedTicks
    /\ CreateTick

NextTickUpdates == CreateUpdatedTick \/ UpdateAnyTick \/ GetTicks

SpecTickUpdates == Init /\ [][NextTickUpdates]_vars

(***************************************************************************)
(* Concurrent store_event callers.  A caller's call begins (the store sees *)
(* the run's counter as it is then) and later takes effect in one step.    *)
(***************************************************************************)
BeginStoreEvent(t) ==
    /\ pc[t] = "idle"
    /\ issued < MaxCalls
    /\ \E event \in EventInputs :
        pending' = [pending EXCEPT ![t] =
            Scalar([event |-> event,
                    seen |-> [Unified |->
                                 facade.Unified.event_log_storage.seq[event.run_id],
                              Composite |->
                                 CompositeStorage_event_log_storage(facade.Composite)
                                     .seq[event.run_id]]])]
    /\ pc' = [pc EXCEPT ![t] = "calling"]
    /\ issued' = issued + 1
    /\ UNCHANGED <<facade, last, subscriber, watches, objects>>

CommitStoreEvent(t) ==
    /\ pc[t] = "calling"
    /\ LET call == pending[t][1]
           u == InEventLogStorage(facade.Unified,
                    EventLogStorage_store_event_at(facade.Unified.event_log_storage,
                                                   call.event, call.seen.Unified))
           c == InCompositeEventLogStorage(facade.Composite,
                    EventLogStorage_store_event_at(
                        CompositeStorage_event_log_storage(facade.Composite),
                        call.event, call.seen.Composite))
       IN /\ facade' = [Unified |-> u.storage, Composite |-> c.storage]
          /\ last' = [op |-> "store_event", args |-> <<call.event>>,
                      result |-> [Unified |-> u.result, Composite |-> c.result]]
    /\ pc' = [pc EXCEPT ![t] = "idle"]
    /\ UNCHANGED <<pending, issued, subscriber, watches, objects>>

NextConcurrent == \E t \in Threads : BeginStoreEvent(t) \/ CommitStoreEvent(t)

SpecConcurrent == Init /\ [][NextConcurrent]_vars

(***************************************************************************)
(* Live watching.  The watcher of a (run, handler) pair lives in the event *)
(* log store it was registered with and polls that store; the subscriber   *)
(* keeps what it passed to watch and what its callback was invoked with.   *)
(***************************************************************************)
RunEnded(rs, run_id) ==
    /\ RunIndex(rs, run_id) # 0
    /\ rs[RunIndex(rs, run_id)].status \in TerminalStatuses

\* A handler is registered anew only when it is not being watched.
Watch(run_id, callback) ==
    /\ watches < MaxWatches
    /\ facade.Unified.event_log_storage.watchers[<<run_id, callback>>].status
           \in {"Unregistered", "Stopped"}
    /\ \E cursor \in StartCursors :
        /\ Call("watch", <<run_id, cursor, callback>>,
                LegacyEventLogStorage_watch(facade.Unified, run_id, cursor, callback),
                InCompositeEventLogStorage(facade.Composite,
                    EventLogStorage_watch(
                        CompositeStorage_event_log_storage(facade.Composite), run_id,
                        cursor, callback)))
        /\ subscriber' = [f \in Facades |->
               [subscriber[f] EXCEPT ![<<run_id, callback>>] =
                   [watching |-> "yes", cursor |-> cursor, calls |-> <<>>,
                    outcomes |-> <<>>]]]
    /\ watches' = watches + 1
    /\ UNCHANGED <<pc, pending, issued, objects>>

EndWatch(run_id, handler) ==
    LET u == LegacyEventLogStorage_end_watch(facade.Unified, run_id, handler)
        c == InCompositeEventLogStorage(facade.Composite,
                 EventLogStorage_end_watch(
                     CompositeStorage_event_log_storage(facade.Composite), run_id,
                     handler))
        returned == [Unified |-> u.result.error = "", Composite |-> c.result.error = ""]
    IN /\ Call("end_watch", <<run_id, handler>>, u, c)
       /\ subscriber' = [f \in Facades |->
              [subscriber[f] EXCEPT ![<<run_id, handler>>].watching =
                  IF @ = "yes" /\ returned[f] THEN "ended" ELSE @]]
       /\ UNCHANGED <<pc, pending, issued, watches, objects>>

\* store_event of a step event of run_id while watchers may be polling; at
\* most max_events events are stored.
WatchedStoreEvent(run_id, max_events) ==
    /\ TotalEvents(facade.Unified.event_log_storage) < max_events
    /\ LET event == [run_id |-> run_id, type |-> "STEP_OUTPUT", asset_key |-> None]
       IN Step("store_event", <<event>>,
               LegacyEventLogStorage_store_event(facade.Unified, event),
               InCompositeEventLogStorage(facade.Composite,
                   EventLogStorage_store_event(
                       CompositeStorage_event_log_storage(facade.Composite), event)))

\* The subscriber's side after its callback was invoked with the entries
\* numbered `invoked` and did what `outcomes` says at each invocation.
Invoked(mine, invoked, outcomes) ==
    [mine EXCEPT !.calls = @ \o invoked,
                 !.outcomes = @ \o SubSeq(outcomes, 1, Len(invoked))]

\* One iteration of the poll loop of the watcher of (run_id, handler), in
\* the store of each facade.
Poll(run_id, handler, limits, behaviours, faults) ==
    /\ PollingWatcher_can_poll(facade.Unified.event_log_storage, run_id, handler)
    /\ \E batch_limit \in limits, fault \in faults :
       \E outcomes \in [1..batch_limit -> behaviours] :
       \E read \in {PollingWatcher_read(facade.Unified.event_log_storage, run_id,
                                        handler, batch_limit, fault)},
          composite_read \in {PollingWatcher_read(
                                 CompositeStorage_event_log_storage(facade.Composite),
                                 run_id, handler, batch_limit, fault)} :
       \E polled \in {PollingWatcher_poll(facade.Unified.event_log_storage,
                           RunEnded(facade.Unified.run_storage, run_id),
                           run_id, handler, read, outcomes)},
          composite_polled \in {PollingWatcher_poll(
                           CompositeStorage_event_log_storage(facade.Composite),
                           RunEnded(CompositeStorage_run_storage(facade.Composite), run_id),
                           run_id, handler, composite_read, outcomes)} :
       \E u \in {InEventLogStorage(facade.Unified, polled)},
          c \in {InCompositeEventLogStorage(facade.Composite, composite_polled)} :
           /\ Call("poll", <<run_id, handler, fault>>, u, c)
           /\ subscriber' =
                  [subscriber EXCEPT
                      !.Unified[<<run_id, handler>>] =
                          Invoked(@, polled.invoked, outcomes),
                      !.Composite[<<run_id, handler>>] =
                          Invoked(@, composite_polled.invoked, outcomes)]
    /\ UNCHANGED <<pc, pending, issued, watches, objects>>

\* Three subscriptions over two runs; callbacks return and reads succeed.
WatchedPairs == {<<"r1", "h1">>, <<"r1", "h2">>, <<"r2", "h1">>}

NextWatch ==
    \/ \E k \in WatchedPairs : Watch(k[1], k[2])
    \/ \E k \in WatchedPairs : EndWatch(k[1], k[2])
    \/ \E k \in WatchedPairs : Poll(k[1], k[2], BatchLimits, {"returns"}, {None})
    \/ \E run_id \in RunIds : WatchedStoreEvent(run_id, MaxEvents)

SpecWatch == Init /\ [][NextWatch]_vars

\* Two subscribers of one run that holds up to MaxWatchedEvents events.
NextWatchRun ==
    \/ \E handler \in Handlers : Watch("r1", handler)
    \/ \E handler \in Handlers : EndWatch("r1", handler)
    \/ \E handler \in Handlers : Poll("r1", handler, BatchLimits, {"returns"}, {None})
    \/ WatchedStoreEvent("r1", MaxWatchedEvents)

SpecWatchRun == Init /\ [][NextWatchRun]_vars

\* Two subscribers of one run whose callbacks may never return.  Every
\* watcher is a background task of its own that polls at a fixed interval:
\* a loop that can start its next iteration eventually does.
NextWatchLive ==
    \/ \E handler \in Handlers : Watch("r1", handler)
    \/ \E handler \in Handlers : EndWatch("r1", handler)
    \/ \E handler \in Handlers : Poll("r1", handler, {1}, {"returns", "blocks"}, {None})
    \/ WatchedStoreEvent("r1", MaxEvents)

SpecWatchLive ==
    /\ Init
    /\ [][NextWatchLive]_vars
    /\ \A handler \in Handlers :
          WF_vars(Poll("r1", handler, {1}, {"returns", "blocks"}, {None}))

\* One subscriber of a run that holds up to MaxWatchedEvents events, read
\* two at a time: more entries can be pending than one read returns.  The
\* callback returns and the reads succeed; the loop polls at a fixed
\* interval, so an iteration that can run eventually does.
BatchLimit == 2

NextWatchBatches ==
    \/ Watch("r1", "h1")
    \/ EndWatch("r1", "h1")
    \/ Poll("r1", "h1", {BatchLimit}, {"returns"}, {None})
    \/ WatchedStoreEvent("r1", MaxWatchedEvents)

SpecWatchBatches ==
    /\ Init
    /\ [][NextWatchBatches]_vars
    /\ WF_vars(Poll("r1", "h1", {BatchLimit}, {"returns"}, {None}))

\* Two subscribers of one run whose callbacks may raise, over a backend
\* whose reads may fail; a handler is registered again once it was stopped.
BackendErrors == {"BackendError"}

NextWatchFaults ==
    \/ \E handler \in Handlers : Watch("r1", handler)
    \/ \E handler \in Handlers :
           Poll("r1", handler, BatchLimits, {"returns", "raises"}, Optional(BackendErrors))
    \/ WatchedStoreEvent("r1", MaxEvents)

SpecWatchFaults == Init /\ [][NextWatchFaults]_vars


WatchedRunEnds(run_id) ==
    Step("handle_run_event", <<run_id, "PIPELINE_SUCCESS">>,
         LegacyRunStorage_handle_run_event(facade.Unified, run_id, "PIPELINE_SUCCESS"),
         InCompositeRunStorage(facade.Composite,
             RunStorage_handle_run_event(CompositeStorage_run_storage(facade.Composite),
                                         run_id, "PIPELINE_SUCCESS")))

\* The life of one subscriber's watcher on a run that was added before the
\* subscription: the run ends, events arrive, the callback may raise, reads
\* may fail, and the handler may be deregistered.
InitWatchLife ==
    /\ \E pipeline_run \in {[run_id |-> "r1", status |-> "QUEUED", tags |-> {}]} :
          facade = [Unified |-> LegacyRunStorage_add_run(UnifiedStorage_init,
                                                         pipeline_run).storage,
                    Composite |-> CompositeStorage_init(
                                      RunStorage_add_run(EmptyRunStorage,
                                                         pipeline_run).store,
                                      EmptyEventLogStorage, EmptyScheduleStorage)]
    /\ last = [op |-> "init", args |-> <<>>,
               result |-> [Unified |-> Ok(None), Composite |-> Ok(None)]]
    /\ pc = [t \in Threads |-> "idle"]
    /\ pending = [t \in Threads |-> None]
    /\ issued = 0
    /\ subscriber = [f \in Facades |->
                        [k \in WatchKeys |->
                            [watching |-> "never", cursor |-> 0, calls |-> <<>>,
                             outcomes |-> <<>>]]]
    /\ watches = 0
    /\ objects = Constructed

NextWatchLife ==
    \/ Watch("r1", "h1")
    \/ EndWatch("r1", "h1")
    \/ Poll("r1", "h1", BatchLimits, {"returns", "raises"}, Optional(BackendErrors))
    \/ WatchedStoreEvent("r1", MaxEvents)
    \/ WatchedRunEnds("r1")

\* The watcher is a background task that polls at a fixed interval: an
\* iteration that would change the stores or call the subscriber back
\* eventually runs.  Nothing obliges the backend to fail.
SpecWatchLife ==
    /\ InitWatchLife
    /\ [][NextWatchLife]_vars
    /\ WF_<<facade, subscriber>>(Poll("r1", "h1", BatchLimits, {"returns", "raises"},
                                    {None}))

(***************************************************************************)
(* The three roles of one storage, filled and wiped                        *)
(***************************************************************************)
WipeEvents ==
    Step("wipe", <<"event_log_storage">>,
         LegacyEventLogStorage_wipe(facade.Unified),
         InCompositeEventLogStorage(facade.Composite,
             EventLogStorage_wipe(CompositeStorage_event_log_storage(facade.Composite))))

WipeSchedules ==
    Step("wipe", <<"schedule_storage">>,
         LegacyScheduleStorage_wipe(facade.Unified),
         InCompositeScheduleStorage(facade.Composite,
             ScheduleStorage_wipe(CompositeStorage_schedule_storage(facade.Composite))))

NextRoles ==
    \/ AddRun
    \/ WatchedStoreEvent("r1", MaxEvents)
    \/ CreateUpdatedTick
    \/ WipeRuns
    \/ WipeEvents
    \/ WipeSchedules

SpecRoles == Init /\ [][NextRoles]_vars

(***************************************************************************)
(* Calls made through the facade objects                                   *)
(***************************************************************************)
\* A step on the objects: the stores' contents are not looked at.
ObjectStep(op, args, result) ==
    /\ last' = [op |-> op, args |-> args,
                result |-> [Unified |-> result, Composite |-> result]]
    /\ UNCHANGED <<facade, pc, pending, issued, subscriber, watches>>

\* A caller reads a property of the Composite facade and calls the store
\* it gets.
CallOnComposite ==
    /\ Len(objects.received) < MaxObjectCalls
    /\ \E role \in Roles :
          \E store \in {CompositeStorage_property(objects.composite, role)} :
              /\ objects' = [objects EXCEPT !.received = Append(@, store)]
              /\ ObjectStep(role, <<>>, Ok(Scalar(store)))

\* A caller calls a role adapter, which calls its backend.
CallOnAdapter ==
    /\ Len(objects.received) < MaxObjectCalls
    /\ \E adapter \in Adapters :
          \E storage \in {objects.adapters[adapter]._storage} :
              /\ objects' = [objects EXCEPT !.received = Append(@, storage)]
              /\ ObjectStep(adapter, <<>>, Ok(Scalar(storage)))

\* register_instance is called on a role adapter; registrations keeps what
\* the callers asked for.
DagsterInstances == {"instance#1", "instance#2"}

RegisterInstance ==
    /\ Len(objects.registrations) < MaxRegistrations
    /\ \E adapter \in Adapters, instance \in DagsterInstances :
          /\ objects' =
                [objects EXCEPT
                    !.backend =
                        CASE adapter = "LegacyRunStorage" ->
                                 LegacyRunStorage_register_instance(@, instance)
                          [] adapter = "LegacyEventLogStorage" ->
                                 LegacyEventLogStorage_register_instance(@, instance)
                          [] adapter = "LegacyScheduleStorage" ->
                                 LegacyScheduleStorage_register_instance(@, instance),
                    !.registrations = Append(@, <<adapter, instance>>)]
          /\ ObjectStep("register_instance", <<adapter, instance>>, Ok(None))

\* The instance a role adapter reports.
ReadInstance ==
    \E adapter \in Adapters :
        /\ ObjectStep("_instance", <<adapter>>,
                      Ok(CASE adapter = "LegacyRunStorage" ->
                                  LegacyRunStorage_instance(objects.backend)
                           [] adapter = "LegacyEventLogStorage" ->
                                  LegacyEventLogStorage_instance(objects.backend)
                           [] adapter = "LegacyScheduleStorage" ->
                                  LegacyScheduleStorage_instance(objects.backend)))
        /\ UNCHANGED objects

NextRegistration == RegisterInstance \/ ReadInstance

SpecRegistration == Init /\ [][NextRegistration]_vars

\* A role store of the backend opens its resources when it is first used.
OpenResources ==
    \E role \in Roles :
        /\ objects.stores[role].resources = "unopened"
        /\ objects' = [objects EXCEPT !.stores[role].resources = "open"]
        /\ ObjectStep("open", <<role>>, Ok(None))

\* dispose is called on a role adapter; disposals keeps the adapters it was
\* called on.
Dispose ==
    /\ Len(objects.disposals) < MaxDisposals
    /\ \E adapter \in Adapters :
       \E out \in {CASE adapter = "LegacyRunStorage" ->
                            LegacyRunStorage_dispose(objects.stores)
                     [] adapter = "LegacyEventLogStorage" ->
                            LegacyEventLogStorage_dispose(objects.stores)
                     [] adapter = "LegacyScheduleStorage" ->
                            LegacyScheduleStorage_dispose(objects.stores)} :
          /\ objects' = [objects EXCEPT !.stores = out.stores,
                                        !.disposals = Append(@, adapter)]
          /\ ObjectStep("dispose", <<adapter>>, out.result)

NextDisposal == OpenResources \/ Dispose

SpecDisposal == Init /\ [][NextDisposal]_vars

\* Configurations: each backend's class is the one that exists or one that
\* does not.
CompositeConfigs ==
    [run_storage : {BackendClasses.run_storage, UnknownClass},
     event_log_storage : {BackendClasses.event_log_storage, UnknownClass},
     schedule_storage : {BackendClasses.schedule_storage, UnknownClass}]

\* A Composite facade is constructed from configuration; the facade made
\* takes the place of the one the caller had.
ConstructComposite ==
    \E config_value \in CompositeConfigs :
        \E made \in {CompositeStorage_from_config_value(config_value)} :
            /\ objects' = IF made.error # "" THEN objects
                          ELSE [objects EXCEPT
                                   !.composite = made.value[1],
                                   !.given.run_storage = "run_storage#2",
                                   !.given.event_log_storage = "event_log_storage#2",
                                   !.given.schedule_storage = "schedule_storage#2",
                                   !.received = <<>>]
            /\ last' = [op |-> "CompositeStorage.from_config_value",
                        args |-> <<config_value>>,
                        result |-> [Unified |-> Ok(None), Composite |-> made]]
            /\ UNCHANGED <<facade, pc, pending, issued, subscriber, watches>>

\* The schedule adapter is constructed from the configuration of its
\* backend.
ConstructScheduleAdapter ==
    \E config_value \in {BackendClasses.storage, UnknownClass} :
        \E made \in {LegacyScheduleStorage_from_config_value(config_value)} :
            /\ objects' = IF made.error # "" THEN objects
                          ELSE [objects EXCEPT
                                   !.adapters.LegacyScheduleStorage = made.value[1],
                                   !.received = <<>>]
            /\ last' = [op |-> "LegacyScheduleStorage.from_config_value",
                        args |-> <<config_value>>,
                        result |-> [Unified |-> made, Composite |-> Ok(None)]]
            /\ UNCHANGED <<facade, pc, pending, issued, subscriber, watches>>

NextConfig ==
    \/ ConstructComposite
    \/ ConstructScheduleAdapter
    \/ CallOnComposite
    \/ CallOnAdapter

SpecConfig == Init /\ [][NextConfig]_vars

NextInstances == CallOnComposite \/ CallOnAdapter

SpecInstances == Init /\ [][NextInstances]_vars

(***************************************************************************)
(* Calls on a backend that fails now and then                              *)
(***************************************************************************)
\* The backend of the event log breaks: its next call raises.
BackendFails ==
    /\ IsNone(facade.Unified.event_log_storage.fault)
    /\ \E error \in BackendErrors :
          Step("backend_fails", <<error>>,
               [storage |-> [facade.Unified EXCEPT
                                !.event_log_storage.fault = Scalar(error)],
                result |-> Ok(None)],
               [storage |-> [facade.Composite EXCEPT
                                !._event_log_storage.fault = Scalar(error)],
                result |-> Ok(None)])

ReadLog(run_id) ==
    Step("get_logs_for_run", <<run_id, None, None, None>>,
         LegacyEventLogStorage_get_logs_for_run(facade.Unified, run_id, None, None, None),
         InCompositeEventLogStorage(facade.Composite,
             EventLogStorage_get_logs_for_run(
                 CompositeStorage_event_log_storage(facade.Composite), run_id, None,
                 None, None)))

NextBackendFaults ==
    \/ BackendFails
    \/ \E run_id \in RunIds : WatchedStoreEvent(run_id, MaxEvents)
    \/ \E run_id \in RunIds : ReadLog(run_id)
    \/ AddRun

SpecBackendFaults == Init /\ [][NextBackendFaults]_vars

(***************************************************************************)
(* Every operation of the three roles, in any order.                       *)
(***************************************************************************)
Next == NextRun \/ NextEvent \/ NextPartitions \/ NextSchedule \/ NextConcurrent

Spec == Init /\ [][Next]_vars

(***************************************************************************)
(* Properties.  U is the Unified facade's backend, read through the Legacy *)
(* adapters; the result of the latest call is last.result.                 *)
(***************************************************************************)
U == facade.Unified

ValueOf(out) == out.result.value
Succeeded(out) == out.result.error = ""

Count(s, x) == Cardinality({i \in 1..Len(s) : s[i] = x})

\* C1: a Unified and a Composite facade that start empty and receive the
\* same sequence of operations return identical results and raise the same
\* errors at every step.
C1_FacadesAgree == last.result.Unified = last.result.Composite

\* C2: LegacyScheduleStorage.all_instigator_state(origin, selector, type)
\* returns exactly what the wrapped schedule store returns when called with
\* the same three filter arguments.
C2_AllInstigatorStateForwardsFilters ==
    last.op = "all_instigator_state" =>
        last.result.Unified =
            ScheduleStorage_all_instigator_state(U.schedule_storage, last.args[1],
                                                 last.args[2], last.args[3]).result

\* The run's whole log as the adapter returns it from cursor 0.
LogFromZero(st, run_id) ==
    ValueOf(LegacyEventLogStorage_get_logs_for_run(st, run_id, Scalar(0), None, None))

Ascending(log) == \A i \in 1..(Len(log) - 1) : log[i].seq < log[i + 1].seq

\* C3: every store_event call returns a sequence number greater than every
\* number the run already holds, and get_logs_for_run(run_id, 0, None, None)
\* afterwards is the log before the call followed by the new entry, so the
\* log lists the entries in call order with strictly increasing numbers.
C3_StoreEventOrder ==
    [][last'.op = "store_event" =>
        LET event == last'.args[1]
            r == last'.result.Unified
            logBefore == LogFromZero(facade.Unified, event.run_id)
            logAfter == LogFromZero(facade'.Unified, event.run_id)
        IN /\ r.error = ""
           /\ Len(r.value) = 1
           /\ \A i \in 1..Len(logBefore) : logBefore[i].seq < r.value[1]
           /\ logAfter = Append(logBefore,
                                [run_id |-> event.run_id, seq |-> r.value[1],
                                 type |-> event.type, asset_key |-> event.asset_key])
           /\ Ascending(logAfter)
           /\ \A other \in RunIds \ {event.run_id} :
                  LogFromZero(facade'.Unified, other) = LogFromZero(facade.Unified, other)
    ]_vars

\* The third store_event of run r1 returned 3 after events of both kinds.
C3_Witness ==
    /\ last.op = "store_event"
    /\ last.args[1].run_id = "r1"
    /\ last.result.Unified = Ok(Scalar(3))
    /\ Len(LogFromZero(U, "r1")) = 3
    /\ {e.type : e \in Range(LogFromZero(U, "r1"))} = EventTypes

\* C4: whatever the interleaving of concurrent store_event calls, no two
\* stored entries of one run have the same sequence number.
C4_NoDuplicateSequenceNumbers ==
    \A run_id \in RunIds :
        LET log == ValueOf(LegacyEventLogStorage_get_logs_for_run(U, run_id, None, None,
                                                                  None))
        IN \A i, j \in 1..Len(log) : i # j => log[i].seq # log[j].seq

\* Two calls for r1 that both began before either took effect have both
\* taken effect.
C4_Witness ==
    /\ \A t \in Threads :
          /\ pc[t] = "idle"
          /\ pending[t] # None
          /\ pending[t][1].event.run_id = "r1"
          /\ pending[t][1].seen.Unified = 0
    /\ Len(U.event_log_storage.log["r1"]) = 2

\* C5: get_logs_for_run(run_id, cursor, of_type, limit) returns, in ascending
\* sequence order, the first `limit` entries of run_id with sequence number
\* strictly greater than cursor and type in of_type (any type when unset),
\* and nothing else; the read changes nothing.
C5_GetLogsForRunSelects ==
    LET stored == UNION {Range(U.event_log_storage.log[r]) : r \in RunIds} IN
    \A run_id \in RunIds, cursor \in 0..MaxEvents,
       of_type \in Optional((SUBSET EventTypes) \ {{}}) :
        LET matching == {e \in stored :
                            /\ e.run_id = run_id
                            /\ e.seq > cursor
                            /\ (IsNone(of_type) \/ e.type \in of_type[1])}
            n == Cardinality(matching)
        IN \A limit \in Optional(1..MaxEvents) :
            LET out == LegacyEventLogStorage_get_logs_for_run(U, run_id, Scalar(cursor),
                                                              of_type, limit)
                res == ValueOf(out)
            IN /\ Succeeded(out)
               /\ Range(res) \subseteq matching
               /\ Ascending(res)
               /\ Len(res) = IF IsNone(limit) \/ limit[1] > n THEN n ELSE limit[1]
               /\ \A e \in matching \ Range(res), x \in Range(res) : x.seq < e.seq
               /\ out.storage = U

\* With three entries in r1, the call with cursor 1 and limit 1 returned
\* exactly the entry numbered 2.
C5_Witness ==
    /\ last.op = "get_logs_for_run"
    /\ last.args = <<"r1", Scalar(1), None, Scalar(1)>>
    /\ Len(U.event_log_storage.log["r1"]) = 3
    /\ Len(last.result.Unified.value) = 1
    /\ last.result.Unified.value[1].seq = 2

AllRuns(st) == ValueOf(LegacyRunStorage_get_runs(st, None, None, None, None))

KnowsRun(st, run_id) == LegacyRunStorage_has_run(st, run_id).result = Ok(Scalar(TRUE))

\* has_run(run_id) is true and get_runs with no filter lists the run.
Present(st, run_id) ==
    /\ KnowsRun(st, run_id)
    /\ \E r \in Range(AllRuns(st)) : r.run_id = run_id

\* C6: after a successful add_run(r), has_run(r.id) is true and get_runs
\* with no filter includes r; a run that is present stays present across
\* every call other than delete_run of that run and wipe.
C6_AddedRunStays ==
    [][\A run_id \in RunIds :
          LET added == /\ last'.op = "add_run"
                       /\ last'.result.Unified.error = ""
                       /\ last'.args[1].run_id = run_id
              removed == \/ last'.op = "wipe"
                         \/ (last'.op = "delete_run" /\ last'.args[1] = run_id)
          IN /\ added => /\ Present(facade'.Unified, run_id)
                         /\ last'.args[1] \in Range(AllRuns(facade'.Unified))
             /\ (Present(facade.Unified, run_id) /\ ~removed) =>
                    Present(facade'.Unified, run_id)
    ]_vars

\* r1 was added first, r2 after it, r1 has since succeeded, and has_run("r1")
\* has just answered true.
C6_Witness ==
    /\ last.op = "has_run"
    /\ last.args = <<"r1">>
    /\ last.result.Unified = Ok(Scalar(TRUE))
    /\ Len(AllRuns(U)) = 2
    /\ AllRuns(U)[2].run_id = "r1"
    /\ AllRuns(U)[2].status = "SUCCESS"

\* C7: add_run with a run id that already exists fails with AlreadyExists
\* and leaves the run store as it was: the same runs with the same status
\* and tags.
C7_DuplicateAddRunRejected ==
    [][(last'.op = "add_run" /\ KnowsRun(facade.Unified, last'.args[1].run_id)) =>
          /\ last'.result.Unified = Raise("AlreadyExists")
          /\ AllRuns(facade'.Unified) = AllRuns(facade.Unified)
          /\ facade'.Unified = facade.Unified
    ]_vars

\* A second add_run of r1 with other tags failed, and the stored r1 keeps
\* its own tags and the status it had reached.
C7_Witness ==
    /\ last.op = "add_run"
    /\ last.args[1] = [run_id |-> "r1", status |-> "QUEUED", tags |-> {"t"}]
    /\ last.result.Unified = Raise("AlreadyExists")
    /\ AllRuns(U) = <<[run_id |-> "r1", status |-> "STARTED", tags |-> {}]>>

\* C8: handle_run_event for a run id that is not in the run store raises
\* nothing, creates no run and changes nothing in the store.
C8_HandleRunEventUnknownRun ==
    [][(last'.op = "handle_run_event" /\ ~KnowsRun(facade.Unified, last'.args[1])) =>
          /\ last'.result.Unified = Ok(None)
          /\ ~KnowsRun(facade'.Unified, last'.args[1])
          /\ AllRuns(facade'.Unified) = AllRuns(facade.Unified)
          /\ facade'.Unified = facade.Unified
    ]_vars

\* handle_run_event("r2", success) returned normally while only r1 is
\* stored.
C8_Witness ==
    /\ last.op = "handle_run_event"
    /\ last.args = <<"r2", "PIPELINE_SUCCESS">>
    /\ last.result.Unified = Ok(None)
    /\ AllRuns(U) = <<[run_id |-> "r1", status |-> "QUEUED", tags |-> {"t"}]>>

LatestOut(st, asset_key) ==
    LegacyEventLogStorage_get_latest_materialization_events(st, {asset_key}).result

\* get_latest_materialization_events answers for the requested key.
Answers(st, asset_key) ==
    /\ LatestOut(st, asset_key).error = ""
    /\ Len(LatestOut(st, asset_key).value) = 1
    /\ asset_key \in DOMAIN LatestOut(st, asset_key).value[1]

\* None, or <<the entry>> the AssetRecord of asset_key refers to.
Latest(st, asset_key) == LatestOut(st, asset_key).value[1][asset_key]

\* Every materialization of asset_key ingested so far, over all runs.
Materializations(st, asset_key) ==
    {e \in UNION {Range(LogFromZero(st, r)) : r \in RunIds} :
        e.type = "ASSET_MATERIALIZATION" /\ e.asset_key = Scalar(asset_key)}

LatestIsGreatest(st) ==
    \A k \in AssetKeys :
        LET record == Latest(st, k)
            ingested == Materializations(st, k)
        IN /\ Answers(st, k)
           /\ (ingested = {}) = IsNone(record)
           /\ ~IsNone(record) =>
                 /\ record[1] \in ingested
                 /\ \A e \in ingested : e.seq <= record[1].seq

\* C9: for every asset key the recorded cursor never decreases; a stored
\* materialization replaces the record iff its cursor is greater than the
\* recorded one (or nothing is recorded), records of other keys are left
\* alone, and get_latest_materialization_events returns an entry with the
\* greatest cursor ingested so far for that key.  Stated of every step
\* that changes a store; the other steps leave every record as it is.
C9_AssetRecordNeverRegresses ==
    [][facade' # facade =>
       /\ LatestIsGreatest(facade.Unified)
       /\ LatestIsGreatest(facade'.Unified)
       /\ \A k \in AssetKeys :
            LET old == Latest(facade.Unified, k)
                new == Latest(facade'.Unified, k)
                ingested == /\ last'.op = "store_event"
                            /\ last'.args[1].type = "ASSET_MATERIALIZATION"
                            /\ last'.args[1].asset_key = Scalar(k)
                n == last'.result.Unified.value[1]
                entry == [run_id |-> last'.args[1].run_id, seq |-> n,
                          type |-> "ASSET_MATERIALIZATION", asset_key |-> Scalar(k)]
            IN /\ ~IsNone(old) => (~IsNone(new) /\ new[1].seq >= old[1].seq)
               /\ ingested =>
                     IF IsNone(old) \/ n > old[1].seq THEN new = Scalar(entry)
                     ELSE new = old
               /\ ~ingested => new = old
    ]_vars

\* a1 was materialized by the second event of r1 and then by the first
\* event of r2: the record still refers to r1's entry with cursor 2.
C9_Witness ==
    /\ last.op = "store_event"
    /\ last.args[1] = [run_id |-> "r2", type |-> "ASSET_MATERIALIZATION",
                       asset_key |-> Scalar("a1")]
    /\ last.result.Unified = Ok(Scalar(1))
    /\ Latest(U, "a1") = Scalar([run_id |-> "r1", seq |-> 2,
                                 type |-> "ASSET_MATERIALIZATION",
                                 asset_key |-> Scalar("a1")])

PartitionsOf(st, partitions_def_name) ==
    ValueOf(LegacyEventLogStorage_get_partitions(st, partitions_def_name))

HasPartitionKey(st, partitions_def_name, partition_key) ==
    LegacyEventLogStorage_has_partition(st, partitions_def_name, partition_key).result
        = Ok(Scalar(TRUE))

\* C10: add_partitions raises nothing; afterwards each added key occurs
\* exactly once in get_partitions(def) and no key occurs twice; when every
\* key was already present get_partitions(def) is unchanged; other
\* definitions are left alone.
C10_AddPartitionsIdempotent ==
    [][last'.op = "add_partitions" =>
        LET def == last'.args[1]
            keys == last'.args[2]
            old == PartitionsOf(facade.Unified, def)
            new == PartitionsOf(facade'.Unified, def)
        IN /\ last'.result.Unified = Ok(None)
           /\ \A k \in Range(keys) : Count(new, k) = 1
           /\ \A k \in PartitionKeys : Count(new, k) <= 1
           /\ \A k \in Range(old) : Count(new, k) = 1
           /\ (\A k \in Range(keys) : HasPartitionKey(facade.Unified, def, k)) => new = old
           /\ \A other \in PartitionsDefs \ {def} :
                  PartitionsOf(facade'.Unified, other) = PartitionsOf(facade.Unified, other)
    ]_vars

\* add_partitions("d1", ["p1"]) has returned while p1 stands before p2 in
\* d1: p1 was already there when it was added again.
C10_Witness ==
    /\ last.op = "add_partitions"
    /\ last.args = <<"d1", <<"p1">>>>
    /\ last.result.Unified = Ok(None)
    /\ PartitionsOf(U, "d1") = <<"p1", "p2">>

Watcher(st, run_id, handler) == st.event_log_storage.watchers[<<run_id, handler>>]

\* C11: end_watch(run_id, handler) for a handler that was never registered
\* or is already deregistered raises nothing and changes nothing: every
\* watcher, of that run and of the other runs, keeps its status and cursor,
\* and no subscriber's side changes.
C11_EndWatchUnregisteredIsNoOp ==
    [][(/\ last'.op = "end_watch"
        /\ Watcher(facade.Unified, last'.args[1], last'.args[2]).status # "Active") =>
          /\ last'.result.Unified = Ok(None)
          /\ \A k \in WatchKeys :
                Watcher(facade'.Unified, k[1], k[2]) = Watcher(facade.Unified, k[1], k[2])
          /\ facade'.Unified = facade.Unified
          /\ subscriber'.Unified = subscriber.Unified
    ]_vars

\* end_watch("r1", "h1") has returned for a handler that was never
\* registered, while h2 watches r1 from cursor 0 and has received event 1,
\* and h1 watches r2 from cursor 1.
C11_Witness ==
    /\ last.op = "end_watch"
    /\ last.args = <<"r1", "h1">>
    /\ last.result.Unified = Ok(None)
    /\ Watcher(U, "r1", "h1").status = "Unregistered"
    /\ Watcher(U, "r1", "h2").status = "Active"
    /\ Watcher(U, "r1", "h2").cursor = 1
    /\ subscriber.Unified[<<"r1", "h2">>].calls = <<1>>
    /\ Watcher(U, "r2", "h1").status = "Active"
    /\ Watcher(U, "r2", "h1").cursor = 1

\* The sequence numbers of run_id's entries after cursor, as the adapter
\* returns them.
SeqsAfter(st, run_id, cursor) ==
    LET log == ValueOf(LegacyEventLogStorage_get_logs_for_run(st, run_id, Scalar(cursor),
                                                              None, None))
    IN [i \in 1..Len(log) |-> log[i].seq]

IsPrefix(s, t) == Len(s) <= Len(t) /\ \A i \in 1..Len(s) : s[i] = t[i]

\* C12: the callback of a watcher registered with a cursor is invoked
\* exactly for the run's entries after that cursor, one by one in log
\* order (cursor 0 over events 1,2,3: 1,2,3); once end_watch has returned
\* for the handler its callback is not invoked again, whatever is stored
\* afterwards, until the handler is registered anew.
C12_WatchDeliversUntilEndWatch ==
    [][\A handler \in Handlers :
          LET before == subscriber.Unified[<<"r1", handler>>]
              after == subscriber'.Unified[<<"r1", handler>>]
          IN /\ IsPrefix(after.calls, SeqsAfter(facade'.Unified, "r1", after.cursor))
             /\ (before.watching = "ended" /\ after.watching = "ended") =>
                    after.calls = before.calls
             /\ (last'.op = "store_event" /\ before.watching = "ended") =>
                    /\ after = before
                    /\ last'.result.Unified.value[1] \notin Range(after.calls)
    ]_vars

\* h1 watched r1 from cursor 0, its callback got exactly 1,2,3, end_watch
\* returned and the watcher stopped; event 4 has been stored since.
C12_Witness ==
    /\ subscriber.Unified[<<"r1", "h1">>].watching = "ended"
    /\ subscriber.Unified[<<"r1", "h1">>].cursor = 0
    /\ subscriber.Unified[<<"r1", "h1">>].calls = <<1, 2, 3>>
    /\ Watcher(U, "r1", "h1").status = "Stopped"
    /\ last.op = "store_event"
    /\ last.result.Unified = Ok(Scalar(4))
    /\ SeqsAfter(U, "r1", 0) = <<1, 2, 3, 4>>

\* C13: between its registration and the next one, the sequence numbers a
\* subscriber's callback is invoked with are strictly increasing (so none
\* comes twice) and all greater than the cursor it passed to watch, for
\* every interleaving of store_event calls and polls and every batch limit.
C13_CallbacksStrictlyIncreasing ==
    \A k \in WatchKeys :
        LET mine == subscriber.Unified[k] IN
        /\ \A i \in 1..Len(mine.calls) : mine.calls[i] > mine.cursor
        /\ \A i \in 1..(Len(mine.calls) - 1) : mine.calls[i] < mine.calls[i + 1]
        /\ \A i, j \in 1..Len(mine.calls) : mine.calls[i] = mine.calls[j] => i = j

\* h1 watches r1 from cursor 1 and has got 2 and then 3 in two polls, the
\* second after event 3 was stored.
C13_Witness ==
    /\ last.op = "poll"
    /\ last.args = <<"r1", "h1", None>>
    /\ last.result.Unified = Ok(None)
    /\ subscriber.Unified[<<"r1", "h1">>].watching = "yes"
    /\ subscriber.Unified[<<"r1", "h1">>].cursor = 1
    /\ subscriber.Unified[<<"r1", "h1">>].calls = <<2, 3>>
    /\ Watcher(U, "r1", "h1").cursor = 3

\* Everything about the subscription of handler to run_id: the watcher in
\* the store and the subscriber's side.
Subscription(st, sub, run_id, handler) ==
    <<Watcher(st, run_id, handler), sub[<<run_id, handler>>]>>

\* The callback of handler has been invoked with every entry the run holds
\* after the cursor passed to watch, or the handler is not watching, or its
\* own callback has not returned.
CaughtUpOrGone(run_id, handler) ==
    LET mine == subscriber.Unified[<<run_id, handler>>] IN
    \/ mine.calls = SeqsAfter(U, run_id, mine.cursor)
    \/ mine.watching # "yes"
    \/ Watcher(U, run_id, handler).blocked

\* C14: subscribers of one run are independent.  A watch, end_watch or poll
\* of one handler leaves the other handler's watcher, cursor and received
\* entries as they were; and a watching subscriber whose own callback
\* returns always comes to have received every entry stored after its
\* cursor, also while the other subscriber's callback never returns.
C14_SubscribersIndependent ==
    /\ [][\A handler \in Handlers :
            (last'.op \in {"watch", "end_watch", "poll"}
               /\ handler # last'.args[IF last'.op = "watch" THEN 3 ELSE 2]) =>
                Subscription(facade'.Unified, subscriber'.Unified, "r1", handler)
                    = Subscription(facade.Unified, subscriber.Unified, "r1", handler)
       ]_vars
    /\ \A handler \in Handlers : []<>CaughtUpOrGone("r1", handler)

\* h1's callback was invoked with event 1 and has not returned; h2 has
\* since received events 1, 2 and 3, the last one just now.
C14_Witness ==
    /\ Watcher(U, "r1", "h1").blocked
    /\ Watcher(U, "r1", "h1").cursor = 0
    /\ subscriber.Unified[<<"r1", "h1">>].calls = <<1>>
    /\ subscriber.Unified[<<"r1", "h1">>].outcomes = <<"blocks">>
    /\ subscriber.Unified[<<"r1", "h2">>].watching = "yes"
    /\ subscriber.Unified[<<"r1", "h2">>].cursor = 0
    /\ subscriber.Unified[<<"r1", "h2">>].calls = <<1, 2, 3>>
    /\ last.op = "poll"
    /\ last.args = <<"r1", "h2", None>>

\* The number of consecutive failures a callback's invocations end with.
RECURSIVE Streak(_)
Streak(outcomes) ==
    IF outcomes = <<>> \/ outcomes[Len(outcomes)] # "raises" THEN 0
    ELSE 1 + Streak(SubSeq(outcomes, 1, Len(outcomes) - 1))

\* Some invocation of the callback reached MaxConsecutiveFailures
\* consecutive failures.
Exhausted(outcomes) ==
    \E n \in 1..Len(outcomes) : Streak(SubSeq(outcomes, 1, n)) >= MaxConsecutiveFailures

\* C15: a callback that raises does not stop the poll loop (the watcher
\* stays Active and goes on to the next entry) and touches no other
\* subscriber; the watcher counts the consecutive failures, a callback that
\* returns resets the count, and the subscriber is unregistered exactly when
\* the count reaches the bound, after which its callback is not invoked.
C15_CallbackFailuresIsolated ==
    [][\A handler \in Handlers :
          LET before == subscriber.Unified[<<"r1", handler>>]
              mine == subscriber'.Unified[<<"r1", handler>>]
              w == Watcher(facade'.Unified, "r1", handler)
              polled == last'.op = "poll" /\ last'.args[2] = handler
          IN /\ (polled /\ last'.result.Unified.error = "") =>
                   /\ w.failures = Streak(mine.outcomes)
                   /\ (w.stopped_by = "callback_failures") = Exhausted(mine.outcomes)
                   /\ (w.status = "Active") =
                         (mine.watching = "yes" /\ ~Exhausted(mine.outcomes))
             /\ (last'.op = "poll" /\ ~polled) =>
                   Subscription(facade'.Unified, subscriber'.Unified, "r1", handler)
                       = Subscription(facade.Unified, subscriber.Unified, "r1", handler)
             /\ (Exhausted(before.outcomes) /\ last'.op # "watch") =>
                   mine.calls = before.calls
    ]_vars

\* h1's callback raised on event 1, returned on event 2 and raised on event
\* 3: the count is back at one and h1 is still watched, while h2, whose
\* callback raised on events 1 and 2, is unregistered.
C15_Witness ==
    /\ subscriber.Unified[<<"r1", "h1">>].calls = <<1, 2, 3>>
    /\ subscriber.Unified[<<"r1", "h1">>].outcomes = <<"raises", "returns", "raises">>
    /\ Watcher(U, "r1", "h1").status = "Active"
    /\ Watcher(U, "r1", "h1").failures = 1
    /\ subscriber.Unified[<<"r1", "h2">>].calls = <<1, 2>>
    /\ subscriber.Unified[<<"r1", "h2">>].outcomes = <<"raises", "raises">>
    /\ Watcher(U, "r1", "h2").status = "Stopped"
    /\ Watcher(U, "r1", "h2").stopped_by = "callback_failures"

\* C16: when the read of an Active watcher's poll raises a backend error,
\* the poll ends with that error (it reaches whoever registered the
\* watcher), the watcher is Stopped with the error recorded and no callback
\* is invoked; a watcher stopped that way is not polled again and its
\* callback is not invoked again.
C16_ReadFailureStopsWatcher ==
    [][\A handler \in Handlers :
          LET before == Watcher(facade.Unified, "r1", handler)
              w == Watcher(facade'.Unified, "r1", handler)
              polled == last'.op = "poll" /\ last'.args[2] = handler
          IN /\ (polled /\ before.status = "Active" /\ last'.args[3] # None) =>
                   /\ last'.result.Unified = Raise(last'.args[3][1])
                   /\ w.status = "Stopped"
                   /\ w.stopped_by = "read_error"
                   /\ w.error = last'.args[3][1]
                   /\ subscriber'.Unified[<<"r1", handler>>]
                         = subscriber.Unified[<<"r1", handler>>]
             /\ (polled /\ last'.args[3] = None) => last'.result.Unified = Ok(None)
             /\ before.stopped_by = "read_error" =>
                   /\ ~polled
                   /\ last'.op # "watch" =>
                         /\ w = before
                         /\ subscriber'.Unified[<<"r1", handler>>].calls
                               = subscriber.Unified[<<"r1", handler>>].calls
    ]_vars

\* h1 had received event 1 when a read of its watcher failed; events 2 and
\* 3 were stored afterwards and h2 received them, h1 did not.
C16_Witness ==
    /\ Watcher(U, "r1", "h1").status = "Stopped"
    /\ Watcher(U, "r1", "h1").stopped_by = "read_error"
    /\ Watcher(U, "r1", "h1").error = "BackendError"
    /\ subscriber.Unified[<<"r1", "h1">>].calls = <<1>>
    /\ subscriber.Unified[<<"r1", "h2">>].calls = <<1, 2, 3>>
    /\ Watcher(U, "r1", "h2").status = "Active"

\* The step takes h1's watcher of r1 out of Active.
LeavesActive ==
    /\ Watcher(facade.Unified, "r1", "h1").status = "Active"
    /\ Watcher(facade'.Unified, "r1", "h1").status # "Active"

\* The step is end_watch for h1, which sets the watcher's cancellation flag.
ByEndWatch ==
    /\ last'.op = "end_watch"
    /\ Watcher(facade'.Unified, "r1", "h1").status = "Stopping"
    /\ Watcher(facade'.Unified, "r1", "h1").stopped_by = "end_watch"

\* The step is a poll that found nothing new, the run having ended and the
\* grace period having passed in empty polls.
ByGracePeriod ==
    /\ last'.op = "poll"
    /\ last'.args[3] = None
    /\ Watcher(facade'.Unified, "r1", "h1").status = "Stopped"
    /\ Watcher(facade'.Unified, "r1", "h1").stopped_by = "run_ended"
    /\ Watcher(facade'.Unified, "r1", "h1").idle >= GracePeriod
    /\ RunEnded(facade.Unified.run_storage, "r1")
    /\ SeqsAfter(facade.Unified, "r1", Watcher(facade.Unified, "r1", "h1").cursor) = <<>>

\* The step is a poll whose read failed, or whose callback failed for the
\* MaxConsecutiveFailures-th time in a row.
ByFailure ==
    /\ last'.op = "poll"
    /\ Watcher(facade'.Unified, "r1", "h1").status = "Stopped"
    /\ \/ /\ Watcher(facade'.Unified, "r1", "h1").stopped_by = "read_error"
          /\ last'.args[3] # None
       \/ /\ Watcher(facade'.Unified, "r1", "h1").stopped_by = "callback_failures"
          /\ Exhausted(subscriber'.Unified[<<"r1", "h1">>].outcomes)

\* The watcher counts a poll towards the grace period only when the poll
\* found nothing after the run ended; a poll that delivers starts it anew.
GraceCounted ==
    LET before == Watcher(facade.Unified, "r1", "h1")
        w == Watcher(facade'.Unified, "r1", "h1")
    IN (last'.op = "poll" /\ w.idle # before.idle) =>
          \/ /\ w.idle = before.idle + 1
             /\ RunEnded(facade.Unified.run_storage, "r1")
             /\ SeqsAfter(facade.Unified, "r1", before.cursor) = <<>>
          \/ /\ w.idle = 0
             /\ \/ ~RunEnded(facade.Unified.run_storage, "r1")
                \/ SeqsAfter(facade.Unified, "r1", before.cursor) # <<>>

\* A watcher whose handler was deregistered, or whose run has ended, comes
\* to be Stopped.
ReachesStopped ==
    (\/ subscriber.Unified[<<"r1", "h1">>].watching = "ended"
     \/ /\ Watcher(U, "r1", "h1").status = "Active"
        /\ RunEnded(U.run_storage, "r1"))
        ~> (Watcher(U, "r1", "h1").status = "Stopped")

\* A Stopped watcher stays Stopped; only a new watch call registers the
\* handler again, as a new watcher.
StoppedForGood ==
    (/\ Watcher(facade.Unified, "r1", "h1").status = "Stopped"
     /\ last'.op # "watch") =>
        Watcher(facade'.Unified, "r1", "h1") = Watcher(facade.Unified, "r1", "h1")

\* C17 as stated: a watcher leaves Active only by explicit end_watch or
\* because its run has ended and the grace period has passed with no new
\* events.
C17_LeavesActiveOnlyByEndWatchOrGrace ==
    [][LeavesActive => (ByEndWatch \/ ByGracePeriod)]_vars

\* C17, amended: a watcher leaves Active only by explicit end_watch,
\* because its run has ended and the grace period has passed with no new
\* events, because its own read failed, or because its callback failed
\* MaxConsecutiveFailures times in a row.  After end_watch, and once its run
\* has ended, it reaches Stopped; it is not stopped for its run's sake while
\* the run has not ended or entries keep arriving within the grace period;
\* and a Stopped watcher never becomes Active again.
C17_WatcherLifecycle ==
    /\ [][LeavesActive => (ByEndWatch \/ ByGracePeriod \/ ByFailure)]_vars
    /\ [][GraceCounted]_vars
    /\ [][StoppedForGood]_vars
    /\ ReachesStopped

\* The run r1 ended after two events; h1 received both, polled twice more
\* without finding anything and its watcher stopped.
C17_Witness ==
    /\ last.op = "poll"
    /\ RunEnded(U.run_storage, "r1")
    /\ subscriber.Unified[<<"r1", "h1">>].watching = "yes"
    /\ subscriber.Unified[<<"r1", "h1">>].calls = <<1, 2>>
    /\ Watcher(U, "r1", "h1").status = "Stopped"
    /\ Watcher(U, "r1", "h1").stopped_by = "run_ended"
    /\ Watcher(U, "r1", "h1").idle = GracePeriod

\* The tick history of an instigator as get_ticks returns it, newest first.
History(st, origin_id, selector_id) ==
    ValueOf(LegacyScheduleStorage_get_ticks(st, origin_id, selector_id, None, None,
                                            None, None))

CompositeHistory(self, origin_id, selector_id) ==
    ValueOf(ScheduleStorage_get_ticks(CompositeStorage_schedule_storage(self),
                                      origin_id, selector_id, None, None, None, None))

\* The ticks purge_ticks(origin_id, selector_id, before, tick_statuses) is
\* to delete among `ticks`.
ToPurge(ticks, origin_id, selector_id, before, tick_statuses) ==
    {t \in ticks : /\ t.origin_id = origin_id
                   /\ t.selector_id = selector_id
                   /\ t.timestamp < before
                   /\ (IsNone(tick_statuses) \/ t.status \in tick_statuses[1])}

\* C18: purge_ticks(origin_id, selector_id, before, tick_statuses) deletes
\* exactly the ticks of that instigator whose timestamp is strictly less
\* than `before` and, when tick_statuses is given, whose status is in it:
\* the history of every instigator after the call is its history before
\* without those ticks, on both facades.
C18_PurgeTicksStrictlyOlder ==
    [][last'.op = "purge_ticks" =>
        /\ last'.result = [Unified |-> Ok(None), Composite |-> Ok(None)]
        /\ \A origin_id \in OriginIds, selector_id \in SelectorIds :
              LET history == History(facade.Unified, origin_id, selector_id)
                  kept == Range(history)
                            \ ToPurge(Range(history), last'.args[1], last'.args[2],
                                      last'.args[3], last'.args[4])
              IN /\ History(facade'.Unified, origin_id, selector_id)
                      = SelectSeqBy(history, kept)
                 /\ CompositeHistory(facade'.Composite, origin_id, selector_id)
                      = SelectSeqBy(history, kept)]_vars

\* Purging the SUCCESS ticks of (o1, s1) older than 2 deleted the first of
\* three SUCCESS ticks and retained the tick of s2 of the same time and the
\* tick of s1 at the cutoff.
C18_Witness ==
    /\ last.op = "purge_ticks"
    /\ last.args = <<"o1", "s1", 2, Scalar({"SUCCESS"})>>
    /\ U.schedule_storage.tick_seq = 3
    /\ History(U, "o1", "s1")
         = <<[tick_id |-> 3, origin_id |-> "o1", selector_id |-> "s1",
              status |-> "SUCCESS", timestamp |-> 2]>>
    /\ History(U, "o1", "s2")
         = <<[tick_id |-> 2, origin_id |-> "o1", selector_id |-> "s2",
              status |-> "SUCCESS", timestamp |-> 1]>>

\* What get_instigator_state returns for a key: None or <<state>>.
Stored(st, origin_id, selector_id) ==
    ValueOf(LegacyScheduleStorage_get_instigator_state(st, origin_id, selector_id))

CompositeStored(self, origin_id, selector_id) ==
    ValueOf(ScheduleStorage_get_instigator_state(
                CompositeStorage_schedule_storage(self), origin_id, selector_id))

\* Every stored state, as all_instigator_state without filters returns them.
AllStored(st) ==
    ValueOf(LegacyScheduleStorage_all_instigator_state(st, None, None, None))[1]

CompositeAllStored(self) ==
    ValueOf(ScheduleStorage_all_instigator_state(
                CompositeStorage_schedule_storage(self), None, None, None))[1]

\* The step changed no stored instigator state, on either facade.
StatesUnchanged ==
    /\ AllStored(facade'.Unified) = AllStored(facade.Unified)
    /\ CompositeAllStored(facade'.Composite) = CompositeAllStored(facade.Composite)

OnePerKey(states) ==
    \A a, b \in states :
        (a.origin_id = b.origin_id /\ a.selector_id = b.selector_id) => a = b

\* C19: add_instigator_state fails with AlreadyExists when a state with the
\* same (origin id, selector id) is present, update_instigator_state fails
\* with NotFound when it is absent, a failed call leaves the stored states
\* unchanged, and at most one state is ever stored per key.
C19_AddAndUpdateDistinguished ==
    /\ [][(/\ last'.op = "add_instigator_state"
            /\ Stored(facade.Unified, last'.args[1].origin_id,
                      last'.args[1].selector_id) # None) =>
              /\ last'.result = [Unified |-> Raise("AlreadyExists"),
                                 Composite |-> Raise("AlreadyExists")]
              /\ StatesUnchanged]_vars
    /\ [][(/\ last'.op = "update_instigator_state"
            /\ Stored(facade.Unified, last'.args[1].origin_id,
                      last'.args[1].selector_id) = None) =>
              /\ last'.result = [Unified |-> Raise("NotFound"),
                                 Composite |-> Raise("NotFound")]
              /\ StatesUnchanged]_vars
    /\ [](OnePerKey(AllStored(U)) /\ OnePerKey(CompositeAllStored(facade.Composite)))

\* A RUNNING sensor was added at (o1, s1) where a STOPPED schedule is
\* stored: the call failed and the schedule is still the stored state.
C19_Witness ==
    /\ last.op = "add_instigator_state"
    /\ last.args = <<[origin_id |-> "o1", selector_id |-> "s1",
                      instigator_type |-> "SENSOR", status |-> "RUNNING"]>>
    /\ last.result.Unified = Raise("AlreadyExists")
    /\ Stored(U, "o1", "s1") = Scalar([origin_id |-> "o1", selector_id |-> "s1",
                                       instigator_type |-> "SCHEDULE",
                                       status |-> "STOPPED"])
    /\ Stored(U, "o1", "s2") # None

\* C20: delete_instigator_state(origin_id, selector_id) fails on a key with
\* no stored state and changes nothing; on a present key it succeeds,
\* get_instigator_state then returns nothing for that key, and what it
\* returns for every other key is unchanged.
C20_DeleteByKey ==
    [][last'.op = "delete_instigator_state" =>
        IF Stored(facade.Unified, last'.args[1], last'.args[2]) = None
        THEN /\ last'.result.Unified.error # ""
             /\ last'.result.Composite.error # ""
             /\ StatesUnchanged
        ELSE /\ last'.result = [Unified |-> Ok(None), Composite |-> Ok(None)]
             /\ \A origin_id \in OriginIds, selector_id \in SelectorIds :
                   LET expected == IF <<origin_id, selector_id>>
                                        = <<last'.args[1], last'.args[2]>>
                                   THEN None
                                   ELSE Stored(facade.Unified, origin_id, selector_id)
                   IN /\ Stored(facade'.Unified, origin_id, selector_id) = expected
                      /\ CompositeStored(facade'.Composite, origin_id, selector_id)
                           = expected]_vars

\* The state at (o1, s1) was deleted while (o1, s2) and (o2, s1) hold
\* states: those two are still stored and (o1, s1) has none.
C20_Witness ==
    /\ last.op = "delete_instigator_state"
    /\ last.args = <<"o1", "s1">>
    /\ last.result.Unified = Ok(None)
    /\ Stored(U, "o1", "s1") = None
    /\ Stored(U, "o1", "s2") # None
    /\ Stored(U, "o2", "s1") # None

\* The stored tick `after` is the stored tick `before` but for its status.
SameButStatus(before, after) == [after EXCEPT !.status = before.status] = before

\* The history `after` holds the ticks of the history `before`, in the same
\* order, each unchanged but for the status of the tick with the id tick_id.
OnlyStatusOf(tick_id, before, after) ==
    /\ Len(after) = Len(before)
    /\ \A i \in 1..Len(before) :
          IF before[i].tick_id = tick_id THEN SameButStatus(before[i], after[i])
          ELSE after[i] = before[i]

\* C21: update_tick(tick) changes only the status of the stored tick with
\* that id: on both facades every instigator's history holds the same ticks
\* afterwards, the updated one with its id, origin, selector and timestamp
\* as before whatever the argument carries, and every other tick unchanged.
C21_UpdateTickOnlyStatus ==
    [][last'.op = "update_tick" =>
        \A origin_id \in OriginIds, selector_id \in SelectorIds :
            /\ OnlyStatusOf(last'.args[1].tick_id,
                            History(facade.Unified, origin_id, selector_id),
                            History(facade'.Unified, origin_id, selector_id))
            /\ OnlyStatusOf(last'.args[1].tick_id,
                            CompositeHistory(facade.Composite, origin_id, selector_id),
                            CompositeHistory(facade'.Composite, origin_id,
                                             selector_id))]_vars

\* update_tick was handed tick 1 as a FAILURE of s2 at time 2; the stored
\* tick 1, of s1 at time 1, became a FAILURE and nothing else changed.
C21_Witness ==
    /\ last.op = "update_tick"
    /\ last.args = <<[tick_id |-> 1, origin_id |-> "o1", selector_id |-> "s2",
                      status |-> "FAILURE", timestamp |-> 2]>>
    /\ History(U, "o1", "s1")
         = <<[tick_id |-> 2, origin_id |-> "o1", selector_id |-> "s1",
              status |-> "STARTED", timestamp |-> 1],
             [tick_id |-> 1, origin_id |-> "o1", selector_id |-> "s1",
              status |-> "FAILURE", timestamp |-> 1]>>
    /\ History(U, "o1", "s2") = <<>>

\* Every stored run, oldest first, as get_runs without arguments returns
\* them newest first.
RunsOf(st) == Reverse(ValueOf(LegacyRunStorage_get_runs(st, None, None, None, None)))

CompositeRunsOf(self) ==
    Reverse(ValueOf(RunStorage_get_runs(CompositeStorage_run_storage(self), None, None,
                                        None, None)))

\* The order of the statuses a run passes before it ends.
StatusOrder == <<"QUEUED", "STARTING", "STARTED">>

Position(status) ==
    IF status \in TerminalStatuses THEN Len(StatusOrder) + 1
    ELSE CHOOSE n \in 1..Len(StatusOrder) : StatusOrder[n] = status

\* A run in status `from` may be found in status `to` next: the status
\* stays, moves forward, or the run, not yet ended, is cancelled.
Forward(from, to) ==
    \/ to = from
    \/ from \notin TerminalStatuses /\ Position(to) > Position(from)

RunsMoveForward(before, after) ==
    /\ Len(after) >= Len(before)
    /\ \A n \in 1..Len(before) :
          /\ after[n].run_id = before[n].run_id
          /\ Forward(before[n].status, after[n].status)

\* C22: under add_run and handle_run_event a stored run keeps its run id,
\* and its status stays or moves forward along queued, starting, started,
\* then success, failure or canceled; a run that has ended keeps its status.
C22_RunStatusMovesForward ==
    [][/\ RunsMoveForward(RunsOf(facade.Unified), RunsOf(facade'.Unified))
       /\ RunsMoveForward(CompositeRunsOf(facade.Composite),
                          CompositeRunsOf(facade'.Composite))]_vars

\* A start event was handled for r1, which had succeeded: r1 is still a
\* success, and r2, added after it, is still queued.
C22_Witness ==
    /\ last.op = "handle_run_event"
    /\ last.args = <<"r1", "PIPELINE_START">>
    /\ Len(RunsOf(U)) = 2
    /\ RunsOf(U)[1].run_id = "r1"
    /\ RunsOf(U)[1].status = "SUCCESS"
    /\ RunsOf(U)[2].status = "QUEUED"

\* The place of the run run_id in `created`, the runs in creation order.
CreatedAt(created, run_id) == CHOOSE n \in 1..Len(created) : created[n].run_id = run_id

Matches(run, filters) == IsNone(filters) \/ run.status \in filters[1]

\* `page` is what get_runs(filters, cursor, limit) may return of the runs
\* `created`: matching runs, each created before the cursor's run, newest
\* first, at most `limit` of them.
IsPage(created, filters, cursor, limit, page) ==
    /\ \A i \in 1..Len(page) :
          /\ page[i] \in Range(created)
          /\ Matches(page[i], filters)
          /\ IsNone(cursor) \/ CreatedAt(created, page[i].run_id)
                                  < CreatedAt(created, cursor[1])
    /\ \A i, j \in 1..Len(page) :
          i < j => CreatedAt(created, page[i].run_id) > CreatedAt(created, page[j].run_id)
    /\ IsNone(limit) \/ Len(page) <= limit[1]

\* The pages a caller collects who starts without cursor and goes on from
\* the last run of each page until a page is empty, in at most `calls` calls.
RECURSIVE Paged(_, _, _, _, _)
Paged(st, filters, cursor, limit, calls) ==
    LET page == ValueOf(LegacyRunStorage_get_runs(st, filters, cursor, limit, None))
    IN IF calls = 0 \/ page = <<>> THEN <<>>
       ELSE page \o Paged(st, filters, Scalar(page[Len(page)].run_id), limit, calls - 1)

RECURSIVE CompositePaged(_, _, _, _, _)
CompositePaged(self, filters, cursor, limit, calls) ==
    LET page == ValueOf(RunStorage_get_runs(CompositeStorage_run_storage(self), filters,
                                            cursor, limit, None))
    IN IF calls = 0 \/ page = <<>> THEN <<>>
       ELSE page \o CompositePaged(self, filters, Scalar(page[Len(page)].run_id), limit,
                                   calls - 1)

\* Every matching run of `created` once, newest first.
AllMatching(created, filters) ==
    SelectSeqBy(Reverse(created), {r \in Range(created) : Matches(r, filters)})

\* C23: get_runs(filters, cursor, limit) returns matching runs newest first
\* by creation, none of them the cursor's run or newer, at most `limit`;
\* and paging from the last run of each page visits every matching run
\* exactly once.  Both facades.
C23_GetRunsPages ==
    \A filters \in StatusFilters, limit \in PageLimits :
        /\ \A cursor \in Optional({r.run_id : r \in Range(U.run_storage)}) :
              /\ IsPage(U.run_storage, filters, cursor, limit,
                        ValueOf(LegacyRunStorage_get_runs(U, filters, cursor, limit,
                                                          None)))
              /\ IsPage(CompositeStorage_run_storage(facade.Composite), filters, cursor,
                        limit,
                        ValueOf(RunStorage_get_runs(
                                    CompositeStorage_run_storage(facade.Composite),
                                    filters, cursor, limit, None)))
        /\ Paged(U, filters, None, limit, Cardinality(PagedRunIds) + 1)
             = AllMatching(U.run_storage, filters)
        /\ CompositePaged(facade.Composite, filters, None, limit,
                          Cardinality(PagedRunIds) + 1)
             = AllMatching(CompositeStorage_run_storage(facade.Composite), filters)

\* r1, r2 and r3 were added in that order and r2 has started; the page of
\* one queued run after the cursor r3 is r1.
C23_Witness ==
    /\ last.op = "get_runs"
    /\ last.args = <<Scalar({"QUEUED"}), Scalar("r3"), Scalar(1)>>
    /\ last.result.Unified = Ok(<<[run_id |-> "r1", status |-> "QUEUED", tags |-> {}]>>)
    /\ U.run_storage = <<[run_id |-> "r1", status |-> "QUEUED", tags |-> {}],
                         [run_id |-> "r2", status |-> "STARTED", tags |-> {}],
                         [run_id |-> "r3", status |-> "QUEUED", tags |-> {}]>>

\* What the sub-store of the called operation itself does with the call, for
\* the Unified facade's stores and for the Composite facade's.
SubStoreOutcome(run_storage, event_log_storage, op, args) ==
    CASE op = "add_run" -> RunStorage_add_run(run_storage, args[1])
      [] op = "store_event" -> EventLogStorage_store_event(event_log_storage, args[1])
      [] op = "get_logs_for_run" ->
            EventLogStorage_get_logs_for_run(event_log_storage, args[1], args[2],
                                             args[3], args[4])

\* The stores of the Unified facade after the step are those of `storage`
\* but for the store the operation was called on, which is `store`.
OnlyCalledOnce(storage, op, store, after) ==
    after = IF op = "add_run" THEN [storage EXCEPT !.run_storage = store]
            ELSE [storage EXCEPT !.event_log_storage = store]

\* C24: when the sub-store raises on a call, the caller of the facade gets
\* that error and no value, on the Unified facade as on the Composite one,
\* and the sub-store was called once: the stores are as that one failed call
\* left them.
C24_StoreErrorsPassThrough ==
    [][last'.op \in {"add_run", "store_event", "get_logs_for_run"} =>
        LET out == SubStoreOutcome(facade.Unified.run_storage,
                                   facade.Unified.event_log_storage, last'.op,
                                   last'.args)
            direct == SubStoreOutcome(CompositeStorage_run_storage(facade.Composite),
                                      CompositeStorage_event_log_storage(
                                          facade.Composite),
                                      last'.op, last'.args)
        IN out.result.error # "" =>
              /\ last'.result.Unified = Raise(out.result.error)
              /\ last'.result.Composite = Raise(direct.result.error)
              /\ direct.result.error = out.result.error
              /\ OnlyCalledOnce(facade.Unified, last'.op, out.store, facade'.Unified)]_vars

\* The backend had broken when the second event of r1 was stored: the call
\* ended with the backend's error and the log of r1 still has one entry.
C24_Witness ==
    /\ last.op = "store_event"
    /\ last.args[1].run_id = "r1"
    /\ last.result = [Unified |-> Raise("BackendError"),
                      Composite |-> Raise("BackendError")]
    /\ Len(U.event_log_storage.log["r1"]) = 1
    /\ IsNone(U.event_log_storage.fault)

\* The role whose adapter the operation was called on.
RoleOf(op, args) ==
    CASE op = "add_run" -> "run_storage"
      [] op = "store_event" -> "event_log_storage"
      [] op = "create_tick" -> "schedule_storage"
      [] op = "wipe" -> IF args = <<>> THEN "run_storage" ELSE args[1]

\* C25: an operation on a role adapter leaves the stores of the two other
\* roles as they were, on the Unified facade as on the Composite one, and
\* the storage holds nothing but its three stores.
C25_AdaptersTouchOwnRoleOnly ==
    [][LET role == RoleOf(last'.op, last'.args) IN
       /\ DOMAIN facade'.Unified = {"run_storage", "event_log_storage", "schedule_storage"}
       /\ role # "run_storage" =>
             /\ facade'.Unified.run_storage = facade.Unified.run_storage
             /\ CompositeStorage_run_storage(facade'.Composite)
                  = CompositeStorage_run_storage(facade.Composite)
       /\ role # "event_log_storage" =>
             /\ facade'.Unified.event_log_storage = facade.Unified.event_log_storage
             /\ CompositeStorage_event_log_storage(facade'.Composite)
                  = CompositeStorage_event_log_storage(facade.Composite)
       /\ role # "schedule_storage" =>
             /\ facade'.Unified.schedule_storage = facade.Unified.schedule_storage
             /\ CompositeStorage_schedule_storage(facade'.Composite)
                  = CompositeStorage_schedule_storage(facade.Composite)]_vars

\* The schedule adapter wiped two ticks away; the run and the two entries
\* of its log are still stored.
C25_Witness ==
    /\ last.op = "wipe"
    /\ last.args = <<"schedule_storage">>
    /\ U.schedule_storage.tick_seq = 2
    /\ U.schedule_storage.ticks = {}
    /\ Len(U.run_storage) = 1
    /\ Len(U.event_log_storage.log["r1"]) = 2

\* C26: the Composite facade's three properties return the instances it was
\* constructed with, each role adapter's backend is the one it was
\* constructed with, the facade has its three fields and no other, and every
\* call made through them reached one of those instances.
C26_FacadeKeepsItsStores ==
    /\ DOMAIN objects.composite = {"_run_storage", "_event_log_storage", "_schedule_storage"}
    /\ \A role \in Roles :
          CompositeStorage_property(objects.composite, role) = objects.given[role]
    /\ \A adapter \in Adapters : objects.adapters[adapter]._storage = objects.given.storage
    /\ \A n \in 1..Len(objects.received) :
          objects.received[n] \in {objects.given[k] : k \in DOMAIN objects.given}

\* The event log store, the run store and then the backend of the schedule
\* adapter were called.
C26_Witness ==
    /\ last.op = "LegacyScheduleStorage"
    /\ objects.received = <<"event_log_storage#1", "run_storage#1", "storage#1">>

\* The instances a configuration names, when every class in it exists.
Instances == {"run_storage#2", "event_log_storage#2", "schedule_storage#2", "storage#2"}

\* C27: construction from a configuration with a class that cannot be
\* resolved ends with an error and returns no facade; construction that
\* succeeds returns a facade whose stores are all resolved instances, so
\* that no later call meets an unresolved backend.
C27_UnknownBackendFailsAtConstruction ==
    /\ [][last'.op = "CompositeStorage.from_config_value" =>
            LET made == last'.result.Composite
                config_value == last'.args[1]
            IN IF \E role \in Roles : config_value[role] = UnknownClass
               THEN made.error # "" /\ made.value = None /\ objects' = objects
               ELSE /\ made.error = ""
                    /\ \A role \in Roles :
                          CompositeStorage_property(made.value[1], role) \in Instances]_vars
    /\ [][last'.op = "LegacyScheduleStorage.from_config_value" =>
            LET made == last'.result.Unified IN
            IF last'.args[1] = UnknownClass
            THEN made.error # "" /\ made.value = None /\ objects' = objects
            ELSE made.error = "" /\ made.value[1]._storage \in Instances]_vars
    /\ [][last'.op \in Roles \cup Adapters =>
            objects'.received[Len(objects'.received)]
                \in Instances \cup {"run_storage#1", "event_log_storage#1",
                                    "schedule_storage#1", "storage#1"}]_vars

\* A configuration whose schedule store alone cannot be resolved was
\* refused, after the facade the caller has was constructed from a good
\* configuration and its run store was called.
C27_Witness ==
    /\ last.op = "CompositeStorage.from_config_value"
    /\ last.args = <<[run_storage |-> "SqliteRunStorage",
                      event_log_storage |-> "SqliteEventLogStorage",
                      schedule_storage |-> "NoSuchStorage"]>>
    /\ last.result.Composite = Raise("UnknownBackend")
    /\ objects.composite = CompositeStorage_init("run_storage#2", "event_log_storage#2",
                                                 "schedule_storage#2")
    /\ objects.received = <<"run_storage#2">>

\* Every entry the run holds after the starting cursor of h1's watch has
\* been passed to h1's callback.
Delivered ==
    subscriber.Unified[<<"r1", "h1">>].calls
        = SeqsAfter(U, "r1", subscriber.Unified[<<"r1", "h1">>].cursor)

\* C28: a watcher that stays Active and whose reads succeed comes, again
\* and again, to have passed to the callback every entry stored for its run
\* after its starting cursor, also when more entries are pending than one
\* read returns: a poll that finds entries pending delivers the next ones,
\* as many as the batch limit allows, and leaves the watcher's cursor at the
\* last entry delivered since registration (at the starting cursor when
\* none was).
C28_WatcherDeliversEverything ==
    /\ []<>(Delivered \/ Watcher(U, "r1", "h1").status # "Active")
    /\ [][(last'.op = "poll" /\ Watcher(facade.Unified, "r1", "h1").status = "Active") =>
            LET before == subscriber.Unified[<<"r1", "h1">>]
                after == subscriber'.Unified[<<"r1", "h1">>]
                pending_entries == SeqsAfter(facade.Unified, "r1",
                                       Watcher(facade.Unified, "r1", "h1").cursor)
                batch == IF Len(pending_entries) > BatchLimit THEN BatchLimit
                         ELSE Len(pending_entries)
            IN /\ after.calls = before.calls \o SubSeq(pending_entries, 1, batch)
               /\ Watcher(facade'.Unified, "r1", "h1").cursor =
                      IF after.calls = <<>> THEN after.cursor
                      ELSE after.calls[Len(after.calls)]
       ]_vars

\* h1 watches r1 from cursor 1; with events 2, 3 and 4 pending a poll has
\* delivered 2 and 3, and the next poll has just delivered 4.
C28_Witness ==
    /\ last.op = "poll"
    /\ Watcher(U, "r1", "h1").status = "Active"
    /\ subscriber.Unified[<<"r1", "h1">>].cursor = 1
    /\ subscriber.Unified[<<"r1", "h1">>].calls = <<2, 3, 4>>
    /\ Watcher(U, "r1", "h1").cursor = 4
    /\ SeqsAfter(U, "r1", 0) = <<1, 2, 3, 4>>

\* What an adapter reports as its instance.
Reported(adapter) ==
    CASE adapter = "LegacyRunStorage" -> LegacyRunStorage_instance(objects.backend)
      [] adapter = "LegacyEventLogStorage" -> LegacyEventLogStorage_instance(objects.backend)
      [] adapter = "LegacyScheduleStorage" -> LegacyScheduleStorage_instance(objects.backend)

\* C29: whatever register_instance calls were made on the three adapters of
\* one backend, the backend's register_instance was called at most once,
\* with the instance of the first call made on any adapter; that instance
\* is the backend's and the one every adapter reports, and before the first
\* call every adapter reports none.
C29_FirstInstanceStays ==
    /\ Len(objects.backend.registered) <= 1
    /\ IF objects.registrations = <<>>
       THEN /\ objects.backend.registered = <<>>
            /\ \A adapter \in Adapters : Reported(adapter) = None
       ELSE /\ objects.backend.registered = <<objects.registrations[1][2]>>
            /\ objects.backend._instance = Scalar(objects.registrations[1][2])
            /\ \A adapter \in Adapters :
                  Reported(adapter) = Scalar(objects.registrations[1][2])
    /\ last.op = "_instance" => last.result.Unified = Ok(Reported(last.args[1]))

\* instance#1 was registered on the event log adapter, then instance#2 on
\* the schedule adapter and on the run adapter; the backend has instance#1.
C29_Witness ==
    /\ objects.registrations = << <<"LegacyEventLogStorage", "instance#1">>,
                                  <<"LegacyScheduleStorage", "instance#2">>,
                                  <<"LegacyRunStorage", "instance#2">> >>
    /\ objects.backend._instance = Scalar("instance#1")
    /\ objects.backend.registered = <<"instance#1">>

\* The role whose store an adapter stands for.
RoleOfAdapter ==
    [LegacyRunStorage |-> "run_storage", LegacyEventLogStorage |-> "event_log_storage",
     LegacyScheduleStorage |-> "schedule_storage"]

\* How many times dispose was called on an adapter.
Disposals(adapter) ==
    Cardinality({n \in 1..Len(objects.disposals) : objects.disposals[n] = adapter})

====
